---------------------------- MODULE Spec2Model ----------------------------
(***************************************************************************)
(* XVC server for FTDI MPSSE adapters: the MPSSE scan engine               *)
(* (src/src/mpsse_adapter.c), the chunking adapter layer                   *)
(* (src/src/ftdi_adapter.c), the XVC request loop (src/src/xvc_protocol.c) *)
(* and the connection callbacks around it (src/src/main.c,                 *)
(* src/src/tcp_server.c).                                                  *)
(*                                                                         *)
(* Buffers are sequences of bytes (0..255), indexed from 1; a C byte index *)
(* k is element k+1.  Bit i of a buffer is bit i%8 of byte i/8.            *)
(*                                                                         *)
(* The sizes of the program (1024-byte scan chunks, a 65536-byte chip      *)
(* buffer, 3*65536 / 65536 byte TX / RX buffers) are scaled down to a few  *)
(* bytes so that vectors can be enumerated; every size that the code       *)
(* derives from another one is derived the same way here.                  *)
(***************************************************************************)
EXTENDS Integers, Sequences, FiniteSets, TLC

(***************************************************************************)
(* Bounds of the model.                                                    *)
(***************************************************************************)
\* chunk_bytes handed to ftdi_adapter_scan_chunked (1024 in xvc_handle)
ChunkBytes == 3
\* chip_buffer_size of the engine (65536 in mpsse_adapter_open)
ChipBufferSize == 8
\* number of client endpoints that may connect
NumClients == 2
\* the clock (seconds) stops advancing here
MaxTime == 1
\* requests served in one run
MaxRequests == 3
\* a run is followed until the device has failed this many times
MaxFaults == 1
\* sleeps of 10 us in the read budget of a flush (50000 in mpsse_buffer_flush)
SleepBudget == 3
\* polls without sleeping while the receive queue is empty (max_spin, 1000
\* in mpsse_buffer_flush)
MaxSpin == 2
\* TCK clocks applied to the two TAP transition functions in one run
MaxClocks == 6
\* bytes of the buffers the bit primitives are applied to
BufBytes == 2

(***************************************************************************)
(* Arithmetic helpers: C operators on int and uint8_t.                     *)
(***************************************************************************)
Pow2(n) == 2 ^ n

min(a, b) == IF a < b THEN a ELSE b

Max(a, b) == IF a > b THEN a ELSE b

\* C integer division truncates toward zero
CDiv(a, b) == IF a >= 0 THEN a \div b ELSE -((-a) \div b)

\* C remainder has the sign of the dividend
CMod(a, b) == a - b * CDiv(a, b)

\* (byte >> s) for a uint8_t
Shr(byte, s) == byte \div Pow2(s)

\* bit k of an integer value
BitOf(byte, k) == (byte \div Pow2(k)) % 2

Zeros(n) == [i \in 1..n |-> 0] \o << >>

\* memcpy(dst + to, src, Len(src)), as far as dst reaches
memcpy(dst, to, src) ==
    SubSeq(dst, 1, to) \o SubSeq(src, 1, min(Len(src), Len(dst) - to))
    \o SubSeq(dst, to + Len(src) + 1, Len(dst))

\* a memset that clears nothing
memset_skipped(dst, n) == dst

\* memset(dst, 0, n), as far as dst reaches
memset(dst, n) == memcpy(dst, 0, Zeros(min(n, Len(dst))))

(***************************************************************************)
(* Bit buffer primitives.                                                  *)
(***************************************************************************)
\* octet & (1 << k) for an octet in 0..255 and k in 0..7
MaskBit(octet, k) == (octet % Pow2(k + 1)) - (octet % Pow2(k))

\* !!(p[idx / 8] & (1 << (idx % 8)))
get_bit(p, idx) == IF MaskBit(p[idx \div 8 + 1], idx % 8) # 0 THEN 1 ELSE 0

\* a set_bit that can set a bit but never clears one
set_bit_SetOnly(p, idx, bit) ==
    LET k == idx \div 8 + 1
    IN  [p EXCEPT ![k] = IF bit # 0 THEN @ + Pow2(idx % 8) - MaskBit(@, idx % 8)
                         ELSE @]

\* *octet |= 1 << (idx % 8) when bit, else *octet &= ~(1 << (idx % 8))
set_bit(p, idx, bit) ==
    LET k == idx \div 8 + 1
    IN  [p EXCEPT ![k] = IF bit # 0 THEN @ + Pow2(idx % 8) - MaskBit(@, idx % 8)
                         ELSE @ - MaskBit(@, idx % 8)]

\* the loop of copy_bits; a scan without a tdo buffer has nothing to copy to
RECURSIVE copy_bits_loop(_, _, _, _, _)
copy_bits_loop(src, fromIdx, dst, toIdx, numBits) ==
    IF numBits <= 0 \/ dst = << >> THEN dst
    ELSE copy_bits_loop(src, fromIdx + 1,
                        set_bit(dst, toIdx, get_bit(src, fromIdx)),
                        toIdx + 1, numBits - 1)

copy_bits(src, fromIdx, dst, toIdx, numBits, duplicateLastBit) ==
    IF duplicateLastBit /\ dst # << >>
    THEN set_bit(copy_bits_loop(src, fromIdx, dst, toIdx, numBits),
                 toIdx + numBits, get_bit(src, fromIdx + numBits - 1))
    ELSE copy_bits_loop(src, fromIdx, dst, toIdx, numBits)

\* the bit-by-bit path of bit_copy: src and dst have been advanced by sb and
\* db bytes, src_offset and dst_offset are below 8, i counts the bits done
RECURSIVE bit_copy_slow(_, _, _, _, _, _, _, _)
bit_copy_slow(dst, db, dst_offset, src, sb, src_offset, i, bit_count) ==
    IF i >= bit_count THEN dst
    ELSE LET si == src_offset + i
             di == dst_offset + i
             bit == BitOf(src[sb + si \div 8 + 1], si % 8)
             k == db + di \div 8 + 1
         IN  bit_copy_slow(
                 [dst EXCEPT ![k] = IF bit # 0
                                    THEN @ + Pow2(di % 8) - MaskBit(@, di % 8)
                                    ELSE @ - MaskBit(@, di % 8)],
                 db, dst_offset, src, sb, src_offset, i + 1, bit_count)

\* bit_copy of bit_copy.h: whole bytes are copied when both offsets are
\* byte-aligned and bit_count is a multiple of 8, bits one by one otherwise
bit_copy(dst, dst_offset, src, src_offset, bit_count) ==
    LET sb == src_offset \div 8
        db == dst_offset \div 8
    IN  IF src_offset % 8 = 0 /\ dst_offset % 8 = 0 /\ bit_count % 8 = 0
        THEN [k \in 1..Len(dst) |->
                 IF k - db \in 1..(bit_count \div 8) THEN src[sb + k - db]
                 ELSE dst[k]]
        ELSE bit_copy_slow(dst, db, dst_offset % 8, src, sb, src_offset % 8,
                           0, bit_count)

(***************************************************************************)
(* JTAG TAP states: enum jtag_state of the engine; jtag_state_t of the XVC *)
(* loop has the same members in the same order.                            *)
(***************************************************************************)
TEST_LOGIC_RESET == 0
RUN_TEST_IDLE == 1
SELECT_DR_SCAN == 2
CAPTURE_DR == 3
SHIFT_DR == 4
EXIT_1_DR == 5
PAUSE_DR == 6
EXIT_2_DR == 7
UPDATE_DR == 8
SELECT_IR_SCAN == 9
CAPTURE_IR == 10
SHIFT_IR == 11
EXIT_1_IR == 12
PAUSE_IR == 13
EXIT_2_IR == 14
UPDATE_IR == 15

TapStates == 0..15

\* a transition function that is the fall-through return of next_state only
next_state_Fallthrough(curState, tmsHigh) == RUN_TEST_IDLE

\* the engine's transition function
next_state(curState, tmsHigh) ==
    CASE curState = TEST_LOGIC_RESET -> IF tmsHigh THEN TEST_LOGIC_RESET ELSE RUN_TEST_IDLE
      [] curState = RUN_TEST_IDLE    -> IF tmsHigh THEN SELECT_DR_SCAN ELSE RUN_TEST_IDLE
      [] curState = SELECT_DR_SCAN   -> IF tmsHigh THEN SELECT_IR_SCAN ELSE CAPTURE_DR
      [] curState = CAPTURE_DR       -> IF tmsHigh THEN EXIT_1_DR ELSE SHIFT_DR
      [] curState = SHIFT_DR         -> IF tmsHigh THEN EXIT_1_DR ELSE SHIFT_DR
      [] curState = EXIT_1_DR        -> IF tmsHigh THEN UPDATE_DR ELSE PAUSE_DR
      [] curState = PAUSE_DR         -> IF tmsHigh THEN EXIT_2_DR ELSE PAUSE_DR
      [] curState = EXIT_2_DR        -> IF tmsHigh THEN UPDATE_DR ELSE SHIFT_DR
      [] curState = UPDATE_DR        -> IF tmsHigh THEN SELECT_DR_SCAN ELSE RUN_TEST_IDLE
      [] curState = SELECT_IR_SCAN   -> IF tmsHigh THEN TEST_LOGIC_RESET ELSE CAPTURE_IR
      [] curState = CAPTURE_IR       -> IF tmsHigh THEN EXIT_1_IR ELSE SHIFT_IR
      [] curState = SHIFT_IR         -> IF tmsHigh THEN EXIT_1_IR ELSE SHIFT_IR
      [] curState = EXIT_1_IR        -> IF tmsHigh THEN UPDATE_IR ELSE PAUSE_IR
      [] curState = PAUSE_IR         -> IF tmsHigh THEN EXIT_2_IR ELSE PAUSE_IR
      [] curState = EXIT_2_IR        -> IF tmsHigh THEN UPDATE_IR ELSE SHIFT_IR
      [] curState = UPDATE_IR        -> IF tmsHigh THEN SELECT_DR_SCAN ELSE RUN_TEST_IDLE
      [] OTHER                       -> RUN_TEST_IDLE

\* the XVC loop's transition table, row s+1 = {next on TMS=0, next on TMS=1}
jtag_next_state ==
    << <<RUN_TEST_IDLE, TEST_LOGIC_RESET>>,
       <<RUN_TEST_IDLE, SELECT_DR_SCAN>>,
       <<CAPTURE_DR, SELECT_IR_SCAN>>,
       <<SHIFT_DR, EXIT_1_DR>>,
       <<SHIFT_DR, EXIT_1_DR>>,
       <<PAUSE_DR, UPDATE_DR>>,
       <<PAUSE_DR, EXIT_2_DR>>,
       <<SHIFT_DR, UPDATE_DR>>,
       <<RUN_TEST_IDLE, SELECT_DR_SCAN>>,
       <<CAPTURE_IR, TEST_LOGIC_RESET>>,
       <<SHIFT_IR, EXIT_1_IR>>,
       <<SHIFT_IR, EXIT_1_IR>>,
       <<PAUSE_IR, UPDATE_IR>>,
       <<PAUSE_IR, EXIT_2_IR>>,
       <<SHIFT_IR, UPDATE_IR>>,
       <<RUN_TEST_IDLE, SELECT_DR_SCAN>> >>

\* a lookup with the two columns of the table exchanged
jtag_step_Swapped(state, tms) == jtag_next_state[state + 1][IF tms # 0 THEN 1 ELSE 2]

jtag_step(state, tms) == jtag_next_state[state + 1][IF tms # 0 THEN 2 ELSE 1]

\* The TAP controller of the target (IEEE 1149.1): the DR column is states
\* 2..8, the IR column 9..15, each Select, Capture, Shift, Exit1, Pause,
\* Exit2, Update.
RefTap(s, tms) ==
    IF s = 0 THEN (IF tms = 1 THEN 0 ELSE 1)
    ELSE IF s = 1 THEN (IF tms = 1 THEN 2 ELSE 1)
    ELSE LET B == IF s <= 8 THEN 2 ELSE 9
             k == s - B
         IN  CASE k = 0 -> IF tms = 1 THEN (IF B = 2 THEN 9 ELSE 0) ELSE B + 1
               [] k = 1 -> IF tms = 1 THEN B + 3 ELSE B + 2
               [] k = 2 -> IF tms = 1 THEN B + 3 ELSE B + 2
               [] k = 3 -> IF tms = 1 THEN B + 6 ELSE B + 4
               [] k = 4 -> IF tms = 1 THEN B + 5 ELSE B + 4
               [] k = 5 -> IF tms = 1 THEN B + 6 ELSE B + 2
               [] OTHER -> IF tms = 1 THEN 2 ELSE 1

(***************************************************************************)
(* The FTDI device in MPSSE mode, with TDO wired to TDI (loopback).        *)
(*   tap      TAP state of the target                                      *)
(*   tms      level of the TMS pin                                         *)
(*   sr       the 8-bit read shift register: every sampled TDO bit enters  *)
(*            at bit 7 and the register moves right (LSB-first modes)      *)
(*   partial  bytes received that do not yet form a whole command          *)
(*   rxq      reply bytes not yet read by the host                         *)
(*   divisor  the 16-bit TCK divisor last programmed                       *)
(*   nclk     TCK cycles issued since the start of the current request     *)
(*   nsampled those of them in which TDO was sampled                       *)
(*   fault    "none", or how the USB transport fails                       *)
(***************************************************************************)
OP_SET_DBUS_LOBYTE == 128
OP_SET_TCK_DIVISOR == 134
OP_DISABLE_CLK_DIVIDE_BY_5 == 138
OP_LOOPBACK_OFF == 133
OP_CLK_DATA_BYTES_OUT_NEG_IN_POS == 57
OP_CLK_DATA_BITS_OUT_NEG_IN_POS == 59
OP_CLK_TMS_NO_READ == 75
OP_CLK_TMS_READ == 107

DevFaults == {"none", "write_fail", "short_write", "no_data"}

\* one TCK cycle: TMS and TDI are driven, TDO (= TDI) is sampled when read
DevClock(d, tms, tdi, read) ==
    [d EXCEPT !.tap = RefTap(d.tap, tms),
              !.tms = tms,
              !.sr = IF read THEN (d.sr \div 2) + 128 * tdi ELSE d.sr,
              !.nclk = d.nclk + 1,
              !.nsampled = IF read THEN d.nsampled + 1 ELSE d.nsampled]

\* n cycles of a TMS command: TMS from bits 0..n-1 of data, TDI from bit 7
RECURSIVE DevTmsBits(_, _, _, _)
DevTmsBits(d, data, n, read) ==
    IF n = 0 THEN d
    ELSE DevClock(DevTmsBits(d, data, n - 1, read),
                  BitOf(data, n - 1), BitOf(data, 7), read)

\* the TAP after n cycles with TMS held at one level: five cycles reach the
\* state it then stays in
RECURSIVE TapHold(_, _, _)
TapHold(s, tms, n) ==
    IF n <= 0 THEN s
    ELSE IF n > 5 THEN TapHold(s, tms, 5)
    ELSE RefTap(TapHold(s, tms, n - 1), tms)

\* n cycles (1..8) of a data command: TDI from bits 0..n-1 of data, TMS
\* held, every bit sampled into the read register
DevDataBits(d, data, n) ==
    [d EXCEPT !.tap = TapHold(d.tap, d.tms, n),
              !.sr = (d.sr \div Pow2(n)) + (data % Pow2(n)) * Pow2(8 - n),
              !.nclk = d.nclk + n,
              !.nsampled = d.nsampled + n]

\* the payload bytes of a byte-shift command, one reply byte each: eight
\* cycles put the whole byte into the read register
DevDataBytes(d, bytes) ==
    IF bytes = << >> THEN d
    ELSE [d EXCEPT !.tap = TapHold(d.tap, d.tms, 8 * Len(bytes)),
                   !.sr = bytes[Len(bytes)],
                   !.rxq = d.rxq \o bytes,
                   !.nclk = d.nclk + 8 * Len(bytes),
                   !.nsampled = d.nsampled + 8 * Len(bytes)]

\* a command that reads puts the read register into the reply queue
DevReply(d, read) == IF read THEN [d EXCEPT !.rxq = Append(d.rxq, d.sr)] ELSE d

\* execute every whole command at the head of d.partial
RECURSIVE DevRun(_)
DevRun(d) ==
    LET p == d.partial
        n == Len(p)
        op == p[1]
        rest(k) == SubSeq(p, k + 1, n)
    IN  IF n = 0 THEN d
        ELSE IF op = OP_CLK_TMS_NO_READ \/ op = OP_CLK_TMS_READ THEN
            IF n < 3 THEN d
            ELSE DevRun(DevReply(DevTmsBits([d EXCEPT !.partial = rest(3)], p[3],
                                            p[2] + 1, op = OP_CLK_TMS_READ),
                                 op = OP_CLK_TMS_READ))
        ELSE IF op = OP_CLK_DATA_BITS_OUT_NEG_IN_POS THEN
            IF n < 3 THEN d
            ELSE DevRun(DevReply(DevDataBits([d EXCEPT !.partial = rest(3)], p[3],
                                             p[2] + 1),
                                 TRUE))
        ELSE IF op = OP_CLK_DATA_BYTES_OUT_NEG_IN_POS THEN
            IF n < 3 \/ n < 4 + p[2] + 256 * p[3] THEN d
            ELSE DevRun(DevDataBytes(
                            [d EXCEPT !.partial = rest(4 + p[2] + 256 * p[3])],
                            SubSeq(p, 4, 4 + p[2] + 256 * p[3])))
        ELSE IF op = OP_SET_TCK_DIVISOR THEN
            IF n < 3 THEN d
            ELSE DevRun([d EXCEPT !.partial = rest(3),
                                  !.divisor = p[2] + 256 * p[3]])
        ELSE IF op = OP_SET_DBUS_LOBYTE THEN
            IF n < 3 THEN d ELSE DevRun([d EXCEPT !.partial = rest(3)])
        ELSE IF op = OP_DISABLE_CLK_DIVIDE_BY_5 \/ op = OP_LOOPBACK_OFF THEN
            DevRun([d EXCEPT !.partial = rest(1)])
        ELSE \* bad command: the device answers 0xFA and the opcode
            DevRun([d EXCEPT !.partial = rest(1),
                             !.rxq = d.rxq \o <<250, op>>])

\* bytes arriving at the device
DevWrite(d, bytes) == DevRun([d EXCEPT !.partial = d.partial \o bytes])

\* TCK frequency of the device for a divisor, divide-by-5 disabled
DevTckHz(divisor) == 60000000 \div (2 * (divisor + 1))

(***************************************************************************)
(* The engine context (struct mpsse_context_s) together with what a scan   *)
(* acts on.  A scan threads one record c through its steps:                *)
(*   tx            TX buffer, tx_num_bytes = Len(tx)                       *)
(*   rx_num_bytes  RX bytes the queued commands will return                *)
(*   obs           the RX observer list, first to last                     *)
(*   rx_buffer     RX staging area, max_rx_buffer_bytes long               *)
(*   max_tx_buffer_bytes, max_rx_buffer_bytes   the sizes of the buffers   *)
(*   flush_threshold   the fill at which an append flushes first           *)
(*   state         TAP state stored by the engine                          *)
(*   last_tdi      TDI level of the last exit bit                          *)
(*   pool_used     allocations taken from the observer pool                *)
(*   dev           the device                                              *)
(*   tdo           the caller's TDO buffer of the running scan             *)
(*   rc            0, or -1 once a step has failed                         *)
(*   emitted       history: command bytes appended during this request     *)
(*   writes        history: size of every FT_Write issued during it        *)
(*   nobs          history: observers appended during this request         *)
(*   nread         history: RX bytes read during this request              *)
(*   rx_asked      history: RX bytes the commands appended during this     *)
(*                 request asked for                                       *)
(*   rx_since      history: RX bytes the commands appended since the last  *)
(*                 flush that returned 0 asked for                         *)
(*   final_tdi     history: TDI of the final bit of the shift run handed   *)
(*                 to append_tdi_shift last, 0 when there was none yet     *)
(*   failed_flushes  history: flushes that failed during this request      *)
(*   fail_ran      history: a flush that failed has run an observer or     *)
(*                 changed a byte of a TDO buffer                          *)
(*   runs          history: the runs of bits mpsse_adapter_scan has handed  *)
(*                 to append_tms_shift and append_tdi_shift during this    *)
(*                 request                                                 *)
(*   ran           history: the observers run during this request, in the  *)
(*                 order they ran; id numbers the observers of a request   *)
(*                 in the order of their append, want is rx_since at the   *)
(*                 append                                                  *)
(*   peak_tx       history: the largest tx_num_bytes during this request   *)
(*   peak_rx       history: the largest rx_num_bytes during this request   *)
(*   overflow      history: a "buffer overflow after flush" has happened   *)
(*   obs_bytes     history: RX bytes taken by the observers appended       *)
(*                 during this request, added up                           *)
(*   obs_miss      history: after an append the queued observers took      *)
(*                 together another number of bytes than rx_num_bytes      *)
(*   ub            history: a dangling or out-of-range access has happened *)
(***************************************************************************)
chip_buffer_size == ChipBufferSize
max_tx_buffer_bytes == 3 * chip_buffer_size
\* an RX buffer one byte short of the chip buffer
max_rx_buffer_bytes_short == chip_buffer_size - 1

max_rx_buffer_bytes == chip_buffer_size
\* 61440 of 65536 bytes in the code
flush_threshold == (15 * chip_buffer_size) \div 16

pool_alloc(c) == [c EXCEPT !.pool_used = @ + 1]

pool_reset(c) == [c EXCEPT !.pool_used = 0]

\* byte k (from 0) of the RX staging area as an observer reads it
RxAt(c, k) == IF k < c.max_rx_buffer_bytes THEN c.rx_buffer[k + 1] ELSE 0

\* bit_copier_rx_observer_fn, byte_copier_rx_observer_fn and
\* bulk_byte_copier_rx_observer_fn: o.fn on rx_buffer + o.data
RunObserver(c, o) ==
    IF o.stale THEN [c EXCEPT !.ub = TRUE]
    ELSE IF o.fn = "bit" THEN
        IF o.to + o.n > 8 * Len(c.tdo) THEN [c EXCEPT !.ub = TRUE]
        ELSE [c EXCEPT !.tdo = copy_bits(<<RxAt(c, o.data)>>, o.from_bit,
                                         c.tdo, o.to, o.n, FALSE)]
    ELSE \* "byte": memcpy(dst, rxData, num_bytes);
         \* "bulk": memcpy(dst + 0, rxData, total_bytes - 0)
        LET over == o.to + o.n > Len(c.tdo) \/ o.data + o.n > c.max_rx_buffer_bytes
        IN  [c EXCEPT !.ub = @ \/ over,
                      !.tdo = memcpy(@, o.to,
                                     [k \in 1..o.n |-> RxAt(c, o.data + k - 1)])]

RECURSIVE RunObservers(_, _)
RunObservers(c, os) ==
    IF os = << >> \/ c.rc # 0 THEN c
    ELSE RunObservers(RunObserver([c EXCEPT !.ran = Append(@, Head(os))],
                                  Head(os)),
                      Tail(os))

\* FT_Write of the whole TX buffer: a short write takes all bytes but the
\* last and fails
FlushWrite(c) ==
    IF c.rc # 0 \/ Len(c.tx) = 0 THEN c
    ELSE IF c.dev.fault = "write_fail"
    THEN [c EXCEPT !.writes = Append(@, Len(c.tx)), !.rc = -1, !.ioerr = TRUE]
    ELSE [c EXCEPT
            !.writes = Append(@, Len(c.tx)),
            !.dev = DevWrite(@, IF c.dev.fault = "short_write"
                                THEN SubSeq(c.tx, 1, Len(c.tx) - 1) ELSE c.tx),
            !.tx = IF c.dev.fault = "short_write" THEN @ ELSE << >>,
            !.rc = IF c.dev.fault = "short_write" THEN -1 ELSE @,
            !.ioerr = IF c.dev.fault = "short_write" THEN TRUE ELSE @]

\* a flush that leaves its observers and its count of expected bytes behind
FlushDone_Kept(c) == c

\* the end of the flush: "Clear observers and RX expectation"
FlushDone(c) == [c EXCEPT !.obs = << >>, !.rx_num_bytes = 0]

\* a read that fails and runs the observers before it returns
FlushReadFailed_Observed(c) ==
    [RunObservers(c, c.obs) EXCEPT !.rc = -1, !.ioerr = TRUE]

\* "Only read %d of %d bytes after timeout": return -1
FlushReadFailed(c) == [c EXCEPT !.rc = -1, !.ioerr = TRUE]

\* the FT_GetQueueStatus / FT_Read loop, then the observers
FlushRead(c) ==
    IF c.rc # 0 \/ c.rx_num_bytes = 0 THEN c
    ELSE LET avail == IF c.dev.fault = "no_data" THEN 0 ELSE Len(c.dev.rxq)
             bytes_read == min(avail, c.rx_num_bytes)
             c1 == [c EXCEPT
                      !.rx_buffer = memcpy(@, 0, SubSeq(c.dev.rxq, 1, bytes_read)),
                      !.dev.rxq = SubSeq(@, bytes_read + 1, Len(@)),
                      !.nread = @ + bytes_read]
         IN  IF bytes_read # c.rx_num_bytes
             THEN FlushReadFailed(c1)
             ELSE FlushDone(RunObservers(c1, c1.obs))

\* a flush that reports success whatever the device did
mpsse_buffer_flush_unchecked(c) ==
    [FlushRead(FlushWrite(c)) EXCEPT !.rc = 0]

\* c is the context a flush was entered with and r the one it left: a flush
\* that returned 0 is the flush the next appends come after, and one that
\* failed is noted when it ran an observer or changed a TDO buffer
FlushMark(c, r) ==
    IF r.rc = 0 THEN [r EXCEPT !.rx_since = 0]
    ELSE [r EXCEPT !.failed_flushes = @ + (IF c.rc = 0 THEN 1 ELSE 0),
                   !.fail_ran = @ \/ (/\ c.rc = 0
                                      /\ \/ r.ran # c.ran
                                         \/ r.tdo # c.tdo
                                         \/ r.res # c.res)]

\* the read part is not reached when the write part has failed
mpsse_buffer_flush(c) ==
    FlushMark(c, FlushRead(FlushWrite(c)))

mpsse_buffer_ensure_can_append(c, tx_bytes, rx_bytes) ==
    LET tx_safety_threshold == (c.max_tx_buffer_bytes * 8) \div 10
        rx_safety_threshold == (c.max_rx_buffer_bytes * 8) \div 10
    IN  IF \/ Len(c.tx) + tx_bytes > c.max_tx_buffer_bytes
           \/ c.rx_num_bytes + rx_bytes > c.max_rx_buffer_bytes
           \/ Len(c.tx) > tx_safety_threshold
           \/ c.rx_num_bytes > rx_safety_threshold
        THEN mpsse_buffer_flush(c)
        ELSE c

NoObserver == [fn |-> "none", data |-> 0, from_bit |-> 0, to |-> 0, n |-> 0,
               stale |-> FALSE]

\* an observer node that reads the first byte of the staging area
ObserverAt_Start(t, observer) == [observer EXCEPT !.data = 0]

\* node->data = b->rx_buffer + b->rx_num_bytes
ObserverAt(t, observer) == [observer EXCEPT !.data = t.rx_num_bytes]

\* the RX bytes an observer takes from the staging area: the bit copier
\* reads bits of one byte, the byte copier num_bytes bytes, the bulk copier
\* total_bytes - bytes_copied bytes
SourceLen(o) == IF o.fn = "bit" THEN 1 ELSE o.n

RECURSIVE SourceLens(_)
SourceLens(os) ==
    IF os = << >> THEN 0 ELSE SourceLen(Head(os)) + SourceLens(Tail(os))

\* The steps of a scan hand the context on from one to the next; a step that
\* is handed a context that has failed (rc # 0) hands it on as it is, which
\* is the caller returning at the first failure.
mpsse_buffer_append(c, tx_data, observer, rx_bytes) ==
    LET tx_bytes == Len(tx_data)
        would_overflow == \/ Len(c.tx) + tx_bytes > c.max_tx_buffer_bytes
                          \/ c.rx_num_bytes + rx_bytes > c.max_rx_buffer_bytes
        at_threshold == \/ Len(c.tx) >= c.flush_threshold
                        \/ c.rx_num_bytes >= c.flush_threshold
        \* the RX part: t has the TX bytes in place
        Rx(t) ==
            IF rx_bytes <= 0 THEN t
            ELSE IF t.rx_num_bytes + rx_bytes > t.max_rx_buffer_bytes
                THEN [t EXCEPT !.rc = -1, !.overflow = TRUE]
            ELSE IF observer.fn = "none"
                THEN [t EXCEPT !.rx_num_bytes = @ + rx_bytes,
                               !.rx_asked = @ + rx_bytes,
                               !.rx_since = @ + rx_bytes,
                               !.peak_rx = Max(@, t.rx_num_bytes + rx_bytes),
                               !.obs_miss = TRUE]
            ELSE [pool_alloc(t) EXCEPT
                    !.obs = Append(@, [id |-> t.nobs + 1, want |-> t.rx_since]
                                      @@ ObserverAt(t, observer)),
                    !.nobs = @ + 1,
                    !.rx_num_bytes = @ + rx_bytes,
                    !.rx_asked = @ + rx_bytes,
                    !.rx_since = @ + rx_bytes,
                    !.peak_rx = Max(@, t.rx_num_bytes + rx_bytes),
                    !.obs_bytes = @ + SourceLen(observer),
                    !.obs_miss = @ \/ SourceLens(t.obs) + SourceLen(observer)
                                       # t.rx_num_bytes + rx_bytes]
        \* the TX part: f is the buffer after the flush, if there was one
        Tx(f) ==
            IF f.rc # 0 THEN f
            ELSE IF tx_bytes > 0 /\ Len(f.tx) + tx_bytes > f.max_tx_buffer_bytes
                THEN [f EXCEPT !.rc = -1, !.overflow = TRUE]
            ELSE Rx(IF tx_bytes > 0
                    THEN [f EXCEPT !.tx = @ \o tx_data, !.emitted = @ \o tx_data,
                                   !.peak_tx = Max(@, Len(f.tx) + tx_bytes)]
                    ELSE f)
    IN  IF c.rc # 0 THEN c
        ELSE Tx(IF would_overflow \/ at_threshold THEN mpsse_buffer_flush(c) ELSE c)

mpsse_buffer_add_write_with_readback(c, tx_data, observer, rx_bytes) ==
    mpsse_buffer_append(mpsse_buffer_ensure_can_append(c, Len(tx_data), rx_bytes),
                        tx_data, observer, rx_bytes)

mpsse_buffer_add_write_simple(c, tx_data, rx_off, rx_bytes) ==
    mpsse_buffer_add_write_with_readback(pool_alloc(c), tx_data,
        [fn |-> "byte", data |-> 0, from_bit |-> 0, to |-> rx_off,
         n |-> rx_bytes, stale |-> FALSE], rx_bytes)

\* the TMS byte of one 0x4B command: bit i carries tms[from_bit_idx + i]
RECURSIVE TmsByte(_, _, _)
TmsByte(tms, from_bit_idx, k) ==
    IF k = 0 THEN 0
    ELSE TmsByte(tms, from_bit_idx, k - 1)
         + get_bit(tms, from_bit_idx + k - 1) * Pow2(k - 1)

RECURSIVE append_tms_shift(_, _, _, _)
append_tms_shift(c, tms, from_bit_idx, to_bit_idx) ==
    IF c.rc # 0 \/ from_bit_idx >= to_bit_idx THEN c
    ELSE LET max_tms_bits_per_command == 6
             bits_to_transfer == min(to_bit_idx - from_bit_idx,
                                     max_tms_bits_per_command)
             tms_byte == TmsByte(tms, from_bit_idx, bits_to_transfer)
             cmd == <<OP_CLK_TMS_NO_READ, bits_to_transfer - 1,
                      tms_byte + 128 * c.last_tdi>>
         IN  append_tms_shift(mpsse_buffer_append(c, cmd, NoObserver, 0), tms,
                              from_bit_idx + bits_to_transfer, to_bit_idx)

BitCopier(from_bit, to_bit, num_bits) ==
    [fn |-> "bit", data |-> 0, from_bit |-> from_bit, to |-> to_bit,
     n |-> num_bits, stale |-> FALSE]

\* The loop of append_tdi_shift.  g holds the values fixed before the loop,
\* c.cur is cur_idx; the four parts of a pass follow.

\* cur_idx += n after a write that succeeded
TdiAdvance(c, n) == IF c.rc # 0 THEN c ELSE [c EXCEPT !.cur = @ + n]

\* leading bits (not byte-aligned)
TdiLeadingBits(c, tdi, g) ==
    IF c.rc = 0 /\ c.cur = g.from_bit_idx /\ g.num_leading_bits > 0
    THEN TdiAdvance(
             mpsse_buffer_add_write_with_readback(
                 pool_alloc(c),
                 <<OP_CLK_DATA_BITS_OUT_NEG_IN_POS, g.num_leading_bits - 1,
                   Shr(tdi[g.from_bit_idx \div 8 + 1], g.from_bit_idx % 8)>>,
                 BitCopier(8 - g.num_leading_bits, g.from_bit_idx,
                           g.num_leading_bits), 1),
             g.num_leading_bits)
    ELSE c

\* the payload of a byte-shift command whose three command bytes are in h
TdiInnerPayload(h, tdi, g, byte_idx, inner_octets_to_send, is_last_chunk) ==
    IF h.rc # 0 THEN h
    ELSE IF is_last_chunk /\ g.bulk_extra
    THEN mpsse_buffer_add_write_with_readback(
             h, SubSeq(tdi, byte_idx + 1, byte_idx + inner_octets_to_send),
             [fn |-> "bulk", data |-> 0, from_bit |-> 0,
              to |-> (g.from_bit_idx + g.num_leading_bits) \div 8,
              n |-> g.total_inner_bytes, stale |-> FALSE],
             inner_octets_to_send)
    ELSE mpsse_buffer_add_write_simple(
             h, SubSeq(tdi, byte_idx + 1, byte_idx + inner_octets_to_send),
             byte_idx, inner_octets_to_send)

\* whole bytes
TdiInnerBytes(c, tdi, g) ==
    IF c.rc = 0 /\ c.cur < g.last_bit_idx /\ g.inner_end_idx > c.cur
    THEN LET inner_octets_to_send ==
                 min((g.inner_end_idx - c.cur) \div 8, chip_buffer_size)
             cmd == <<OP_CLK_DATA_BYTES_OUT_NEG_IN_POS,
                      ((inner_octets_to_send - 1) % 65536) % 256,
                      ((inner_octets_to_send - 1) % 65536) \div 256>>
             remaining_bytes ==
                 g.total_inner_bytes
                 - (c.cur - (g.from_bit_idx + g.num_leading_bits)) \div 8
             is_last_chunk == inner_octets_to_send >= remaining_bytes
         IN  TdiAdvance(
                 TdiInnerPayload(mpsse_buffer_append(c, cmd, NoObserver, 0),
                                 tdi, g, c.cur \div 8, inner_octets_to_send,
                                 is_last_chunk),
                 inner_octets_to_send * 8)
    ELSE c

\* trailing bits
TdiTrailingBits(c, tdi, g) ==
    IF c.rc = 0 /\ g.num_trailing_bits > 0 /\ c.cur < g.last_bit_idx
    THEN TdiAdvance(
             mpsse_buffer_add_write_with_readback(
                 pool_alloc(c),
                 <<OP_CLK_DATA_BITS_OUT_NEG_IN_POS, g.num_trailing_bits - 1,
                   tdi[g.inner_end_idx \div 8 + 1]>>,
                 BitCopier(8 - g.num_trailing_bits, g.inner_end_idx,
                           g.num_trailing_bits), 1),
             g.num_trailing_bits)
    ELSE c

\* last_tdi and cur_idx after the last bit has been queued
TdiLastDone(c, last_tdi_bit) ==
    IF c.rc # 0 THEN c ELSE [c EXCEPT !.last_tdi = last_tdi_bit, !.cur = @ + 1]

\* last bit, clocked by a TMS command
TdiLastBit(c, tdi, g) ==
    IF c.rc = 0 /\ c.cur = g.last_bit_idx
    THEN LET last_tdi_bit == get_bit(tdi, g.last_bit_idx)
             last_tms_bit == IF g.last_tms_bit_high THEN 1 ELSE 0
             cmd == <<OP_CLK_TMS_READ, 0,
                      128 * last_tdi_bit + 2 * last_tms_bit + last_tms_bit>>
         IN  TdiLastDone(
                 mpsse_buffer_add_write_with_readback(
                     pool_alloc(c), cmd, BitCopier(7, g.last_bit_idx, 1), 1),
                 last_tdi_bit)
    ELSE c

RECURSIVE TdiShiftLoop(_, _, _)
TdiShiftLoop(c, tdi, g) ==
    IF c.rc # 0 \/ c.cur >= g.to_bit_idx THEN c
    ELSE TdiShiftLoop(
             TdiLastBit(TdiTrailingBits(TdiInnerBytes(TdiLeadingBits(c, tdi, g),
                                                      tdi, g),
                                        tdi, g),
                        tdi, g),
             tdi, g)

append_tdi_shift(c, tdi, from_bit_idx, to_bit_idx, last_tms_bit_high) ==
    LET last_bit_idx == to_bit_idx - 1
        num_regular_bits == last_bit_idx - from_bit_idx
        num_first_octet_bits == 8 - (from_bit_idx % 8)
        num_leading_bits == min(IF num_first_octet_bits = 8 THEN 0
                                ELSE num_first_octet_bits, num_regular_bits)
        leading_only == num_leading_bits = num_regular_bits
        inner_end_idx == IF leading_only THEN -1
                         ELSE last_bit_idx - (last_bit_idx % 8)
        num_trailing_bits == IF leading_only THEN 0 ELSE last_bit_idx % 8
        inner == IF inner_end_idx > from_bit_idx /\ ~leading_only
                 THEN (inner_end_idx - (from_bit_idx + num_leading_bits)) \div 8
                 ELSE 0
        g == [from_bit_idx |-> from_bit_idx, to_bit_idx |-> to_bit_idx,
              last_bit_idx |-> last_bit_idx,
              num_leading_bits |-> num_leading_bits,
              inner_end_idx |-> inner_end_idx,
              num_trailing_bits |-> num_trailing_bits,
              total_inner_bytes |-> inner,
              bulk_extra |-> inner > 0,
              last_tms_bit_high |-> last_tms_bit_high]
        c0 == IF inner > 0 THEN pool_alloc(c) ELSE c
    IN  TdiShiftLoop([c0 EXCEPT !.cur = from_bit_idx], tdi, g)

\* a scan that takes Shift-DR alone for a shift state
IsShift_DrOnly(st) == st = SHIFT_DR

IsShift(st) == st = SHIFT_DR \/ st = SHIFT_IR

\* the bits from_bit_idx..to_bit_idx-1 of vec are handed to
\* append_tdi_shift (kind "tdi", vec is tdi) or to append_tms_shift (kind
\* "tms", vec is tms)
Handed(c, kind, vec, from_bit_idx, to_bit_idx) ==
    [c EXCEPT !.runs = Append(@, [kind |-> kind, from |-> from_bit_idx,
                                  to |-> to_bit_idx]),
              !.final_tdi = IF kind = "tdi" THEN get_bit(vec, to_bit_idx - 1)
                            ELSE @]

\* the inner loop of mpsse_adapter_scan over the bits of one TMS byte;
\* c.jtag_state and c.first_pending_bit_idx are the locals of the scan
RECURSIVE ScanBits(_, _, _, _, _, _)
ScanBits(c, tms, tdi, bits, bit_idx, this_round_end_bit_idx) ==
    IF c.rc # 0 \/ bit_idx >= this_round_end_bit_idx THEN c
    ELSE LET tms_bit == get_bit(tms, bit_idx) = 1
             next_jtag_state == next_state(c.jtag_state, tms_bit)
             is_shift == IsShift(c.jtag_state)
             next_is_shift == IsShift(next_jtag_state)
             entering_shift == ~is_shift /\ next_is_shift
             leaving_shift == is_shift /\ ~next_is_shift
             end_of_vector == bit_idx = bits - 1
             event == end_of_vector \/ entering_shift \/ leaving_shift
             next_pending_bit_idx == bit_idx + 1
             Pending(a) == IF a.rc # 0 THEN a
                           ELSE [a EXCEPT !.first_pending_bit_idx =
                                             next_pending_bit_idx]
             Step(e) == IF e.rc # 0 THEN e
                        ELSE ScanBits([e EXCEPT !.jtag_state = next_jtag_state],
                                      tms, tdi, bits, bit_idx + 1,
                                      this_round_end_bit_idx)
         IN  Step(IF ~event THEN c
                  ELSE Pending(IF is_shift
                               THEN append_tdi_shift(
                                        Handed(c, "tdi", tdi,
                                               c.first_pending_bit_idx,
                                               next_pending_bit_idx),
                                        tdi, c.first_pending_bit_idx,
                                        next_pending_bit_idx, leaving_shift)
                               ELSE append_tms_shift(
                                        Handed(c, "tms", tms,
                                               c.first_pending_bit_idx,
                                               next_pending_bit_idx),
                                        tms, c.first_pending_bit_idx,
                                        next_pending_bit_idx)))

\* the outer loop of mpsse_adapter_scan, one TMS byte a round
RECURSIVE ScanLoop(_, _, _, _, _)
ScanLoop(c, tms, tdi, bits, bit_idx) ==
    IF c.rc # 0 \/ bit_idx >= bits THEN c
    ELSE LET this_round_end_bit_idx == IF bit_idx + 8 > bits THEN bits
                                       ELSE bit_idx + 8
         IN  ScanLoop(ScanBits(c, tms, tdi, bits, bit_idx, this_round_end_bit_idx),
                      tms, tdi, bits, this_round_end_bit_idx)

\* a scan that resets the pool and does not store the state it reached
ScanStore_PoolOnly(c) == IF c.rc # 0 THEN c ELSE pool_reset(c)

\* the end of a scan that succeeded: the observer pool is reset and the
\* state reached is stored
ScanStore(c) ==
    IF c.rc # 0 THEN c ELSE [pool_reset(c) EXCEPT !.state = c.jtag_state]

\* mpsse_adapter_scan without the flush that ends it
mpsse_adapter_scan_unflushed(c, tms, tdi, bits) ==
    IF bits <= 0 THEN [c EXCEPT !.rc = -1]
    ELSE ScanStore(ScanLoop([c EXCEPT !.first_pending_bit_idx = 0,
                                      !.jtag_state = c.state],
                            tms, tdi, bits, 0))

\* c.tdo is the caller's TDO buffer; rc = -1 on failure, and then the stored
\* state, the TX buffer and the observer list stay as the failing step left them
mpsse_adapter_scan(c, tms, tdi, bits) ==
    IF bits <= 0 THEN [c EXCEPT !.rc = -1]
    ELSE ScanStore(mpsse_buffer_flush(
                       ScanLoop([c EXCEPT !.first_pending_bit_idx = 0,
                                          !.jtag_state = c.state],
                                tms, tdi, bits, 0)))

MPSSE_MAX_FREQUENCY == 30000000

\* returns the context and the value returned (actual, or -1)
mpsse_adapter_set_frequency(c, frequency_hz) ==
    LET f1 == IF frequency_hz > MPSSE_MAX_FREQUENCY THEN MPSSE_MAX_FREQUENCY
              ELSE frequency_hz
        f2 == IF f1 < 1 THEN 1 ELSE f1
        d1 == ((60000000 \div 2) + f2 - 1) \div f2
        d2 == IF d1 > 65535 THEN 65535 ELSE d1
        divisor == IF d2 < 1 THEN 1 ELSE d2
        actual == 60000000 \div (2 * divisor)
        cmd == <<OP_SET_TCK_DIVISOR, divisor % 256, (divisor \div 256) % 256,
                 OP_DISABLE_CLK_DIVIDE_BY_5>>
        Result(f) == [c |-> f, ret |-> IF f.rc # 0 THEN -1 ELSE actual]
    IN  Result(mpsse_buffer_flush(mpsse_buffer_append(c, cmd, NoObserver, 0)))

\* ftdi_adapter_set_period: the period in ns the device was set to, or -1
ftdi_adapter_set_period(c, period_ns) ==
    LET p == IF period_ns = 0 THEN 100 ELSE period_ns
        \* period_ns is unsigned: a negative int32 arrives as 2^32 + period_ns,
        \* which is more than 10^9
        freq_hz == IF p < 0 THEN 0 ELSE 1000000000 \div p
        Period(r) == IF r.ret < 0 THEN [c |-> r.c, ret |-> -1]
                     ELSE [c |-> r.c, ret |-> 1000000000 \div r.ret]
    IN  Period(mpsse_adapter_set_frequency(c, freq_hz))

ftdi_adapter_scan(c, tms, tdi, bits) == mpsse_adapter_scan(c, tms, tdi, bits)

\* free() of a buffer the queued observers still point into
MarkStale(c) ==
    [c EXCEPT !.obs = [k \in 1..Len(c.obs) |-> [c.obs[k] EXCEPT !.stale = TRUE]]
                      \o << >>]

\* the chunk loop of ftdi_adapter_scan_chunked; c.res is the caller's tdo
RECURSIVE ChunkLoop(_, _, _, _, _, _)
ChunkLoop(c, tms, tdi, bits, chunk_bytes, bits_processed) ==
    IF bits_processed >= bits THEN c
    ELSE LET chunk_bits == chunk_bytes * 8
             remaining_bits == bits - bits_processed
             current_chunk_bits == min(remaining_bits, chunk_bits)
             current_chunk_bytes == (current_chunk_bits + 7) \div 8
             byte_offset == bits_processed \div 8
             Copy(s) ==
                 IF s.rc # 0 THEN MarkStale(s)
                 ELSE ChunkLoop(
                          [s EXCEPT !.res = memcpy(@, byte_offset, s.tdo),
                                    !.nchunks = @ + 1],
                          tms, tdi, bits, chunk_bytes,
                          bits_processed + current_chunk_bits)
         IN  Copy(ftdi_adapter_scan(
                      [c EXCEPT !.tdo = Zeros(current_chunk_bytes)],
                      SubSeq(tms, byte_offset + 1, byte_offset + current_chunk_bytes),
                      SubSeq(tdi, byte_offset + 1, byte_offset + current_chunk_bytes),
                      current_chunk_bits))

\* ftdi_adapter_scan_chunked handing the whole vector to one scan
ftdi_adapter_scan_unchunked(c, tms, tdi, bits, chunk_bytes) ==
    IF bits <= 0 THEN [c EXCEPT !.rc = -1]
    ELSE LET Whole(s) == [s EXCEPT !.res = s.tdo, !.nchunks = @ + 1]
         IN  Whole(ftdi_adapter_scan([c EXCEPT !.tdo = c.res], tms, tdi, bits))

\* c.res is the caller's tdo buffer (result_buf of the XVC context)
ftdi_adapter_scan_chunked(c, tms, tdi, bits, chunk_bytes) ==
    IF bits <= 0 THEN [c EXCEPT !.rc = -1]
    ELSE LET total_bytes == (bits + 7) \div 8
             Whole(s) == [s EXCEPT !.res = s.tdo, !.nchunks = @ + 1]
         IN  IF total_bytes <= chunk_bytes
             THEN Whole(ftdi_adapter_scan([c EXCEPT !.tdo = c.res], tms, tdi, bits))
             ELSE ChunkLoop([c EXCEPT !.res = memset(@, total_bytes)],
                            tms, tdi, bits, chunk_bytes, 0)

(***************************************************************************)
(* The XVC protocol layer (xvc_protocol.c).  The XVC context x holds       *)
(* socket_fd, jtag_state, seen_tlr, max_vector_size and result_buf.  A     *)
(* request q is what the client puts on the socket for one command:        *)
(* q.tag, q.arg (the four little-endian bytes of the period or of the      *)
(* length), q.tms and q.tdi (the two halves of the shift vector).          *)
(***************************************************************************)
XVC_DEFAULT_MAX_VECTOR_SIZE == 2048
XVC_MAX_VECTOR_SIZE_LIMIT == 262144

\* "xvcServer_v1.0" in ASCII
XVC_VERSION == <<120, 118, 99, 83, 101, 114, 118, 101, 114, 95, 118, 49, 46, 48>>

\* printf's %d of a number that is not negative
RECURSIVE Decimal(_)
Decimal(n) == IF n < 10 THEN <<48 + n>> ELSE Decimal(n \div 10) \o <<48 + (n % 10)>>

xvc_get_int32(data) ==
    data[1] + 256 * data[2] + 65536 * data[3]
    + 16777216 * (IF data[4] >= 128 THEN data[4] - 256 ELSE data[4])

\* byte k (0..3) of the two's complement form of value
Int32Byte(value, k) ==
    IF value >= 0 THEN (value \div Pow2(8 * k)) % 256
    ELSE 255 - (((-(value + 1)) \div Pow2(8 * k)) % 256)

xvc_put_int32(value) == [k \in 1..4 |-> Int32Byte(value, k - 1)] \o << >>

\* xvc_init taking the configured size as it is
xvc_init_unclamped(socket_fd, max_vector_size) ==
    [socket_fd |-> socket_fd, alloc |-> TRUE, jtag_state |-> TEST_LOGIC_RESET,
     seen_tlr |-> FALSE, max_vector_size |-> max_vector_size,
     result_buf |-> Zeros(max_vector_size)]

\* the allocations are taken to succeed
xvc_init(socket_fd, max_vector_size) ==
    LET m == IF max_vector_size <= 0 THEN XVC_DEFAULT_MAX_VECTOR_SIZE
             ELSE IF max_vector_size > XVC_MAX_VECTOR_SIZE_LIMIT
                  THEN XVC_MAX_VECTOR_SIZE_LIMIT
                  ELSE max_vector_size
    IN  [socket_fd |-> socket_fd, alloc |-> TRUE, jtag_state |-> TEST_LOGIC_RESET,
         seen_tlr |-> FALSE, max_vector_size |-> m, result_buf |-> Zeros(m)]

\* the loop "for (i = 0; i < len; i++) jtag_state = jtag_step(...)" over the
\* bits lo..hi-1 of vec: the first half of the range, then the second
RECURSIVE XvcTrack(_, _, _, _)
XvcTrack(state, vec, lo, hi) ==
    IF hi <= lo THEN state
    ELSE IF hi = lo + 1 THEN jtag_step(state, get_bit(vec, lo))
    ELSE LET mid == (lo + hi) \div 2
             m == XvcTrack(state, vec, lo, mid)
         IN  IF m \notin TapStates THEN m ELSE XvcTrack(m, vec, mid, hi)

\* nr_bytes = (len + 7) / 8 in int arithmetic.  len + 7 overflows for
\* len > INT_MAX - 7: the build either wraps (wrap) or keeps the exact value.
NrBytes(len, wrap) ==
    IF len > 2147483640
    THEN IF wrap THEN CDiv((len - 2147483647) - 2147483642, 8)
         ELSE (len - 1) \div 8 + 1
    ELSE CDiv(len + 7, 8)

\* what one pass of the loop of xvc_handle hands back
XvcOut(x, c, ret, reply, ev) ==
    [x |-> x, c |-> c, ret |-> ret, reply |-> reply, ev |-> ev]

XvcGetinfo(x, c) ==
    XvcOut(x, c, "0", XVC_VERSION \o <<58>> \o Decimal(x.max_vector_size) \o <<10>>,
           <<"read", "read", "write">>)

XvcSettck(x, c, q, frequency) ==
    LET period == IF frequency = 0 THEN xvc_get_int32(q.arg)
                  ELSE 1000000000 \div frequency
        Reply(r) ==
            LET actual == IF r.ret < 0 THEN period ELSE r.ret
                buf == xvc_put_int32(actual)
            IN  XvcOut([x EXCEPT !.result_buf = memcpy(@, 0, buf)],
                       [r.c EXCEPT !.rc = 0], "0", buf,
                       <<"read", "read", "device", "write">>)
    IN  Reply(ftdi_adapter_set_period(c, period))

\* the loop test without seen_tlr
AtRest_IdleOnly(x) == x.jtag_state = RUN_TEST_IDLE

\* the test of the do-while loop: the loop is left when this holds
AtRest(x) == x.seen_tlr /\ x.jtag_state = RUN_TEST_IDLE

\* a handler that does not know the workaround
XvcSkip_Never(x, len, vec) == FALSE

\* "Skip bogus state movements (Xilinx impact workaround)": vec[1] is
\* vector_buf[0], the first TMS byte
XvcSkip(x, len, vec) ==
    \/ x.jtag_state = EXIT_1_IR /\ len = 5 /\ vec[1] = 23
    \/ x.jtag_state = EXIT_1_DR /\ len = 4 /\ vec[1] = 11

XvcShift(x, c, q, wrap) ==
    LET len == xvc_get_int32(q.arg)
        nr_bytes == NrBytes(len, wrap)
    IN  IF nr_bytes > x.max_vector_size
        THEN XvcOut(x, c, "-1", << >>, <<"read", "read", "read">>)
        ELSE IF nr_bytes < 0
        \* xvc_read_exact returns 1 at once, then memset(result_buf, 0, (size_t)nr_bytes)
        THEN XvcOut(x, [c EXCEPT !.ub = TRUE], "crash", << >>,
                    <<"read", "read", "read", "read">>)
        ELSE
        LET buf0 == memset(x.result_buf, nr_bytes)
            seen == /\ (x.seen_tlr \/ x.jtag_state = TEST_LOGIC_RESET)
                    /\ x.jtag_state # CAPTURE_DR
                    /\ x.jtag_state # CAPTURE_IR
            skip == XvcSkip(x, len, q.tms)
            x1 == [x EXCEPT !.result_buf = buf0, !.seen_tlr = seen]
            x2 == IF skip THEN x1
                  ELSE [x1 EXCEPT !.jtag_state = XvcTrack(@, q.tms, 0, len)]
            \* x3 is the context and s the engine after the scan
            Reply(x3, s) ==
                IF s.rc # 0
                THEN XvcOut(x3, [s EXCEPT !.rc = 0], "-1", << >>,
                            <<"read", "read", "read", "read", "device">>)
                ELSE XvcOut(x3, s, IF AtRest(x3) THEN "0" ELSE "loop",
                            SubSeq(x3.result_buf, 1, nr_bytes),
                            IF skip THEN <<"read", "read", "read", "read", "write">>
                            ELSE <<"read", "read", "read", "read", "device", "write">>)
            Scanned(s) ==
                Reply(IF skip \/ s.rc # 0 THEN x2 ELSE [x2 EXCEPT !.result_buf = s.res],
                      s)
        IN  Scanned(IF skip THEN c
                    ELSE ftdi_adapter_scan_chunked([c EXCEPT !.res = buf0],
                                                   q.tms, q.tdi, len, ChunkBytes))

\* one pass of the do-while loop of xvc_handle on request q; ret is the value
\* returned ("0", "1", "-1"), "loop" when the pass ends at the loop test and
\* goes round, "crash" when the pass writes outside its buffers
XvcPass(x, c, q, frequency, wrap) ==
    IF q.tag = "eof" THEN XvcOut(x, c, "1", << >>, <<"read">>)
    ELSE IF q.tag = "ge" THEN XvcGetinfo(x, c)
    ELSE IF q.tag = "se" THEN XvcSettck(x, c, q, frequency)
    ELSE IF q.tag = "sh" THEN XvcShift(x, c, q, wrap)
    ELSE XvcOut(x, c, "-1", << >>, <<"read">>)

(***************************************************************************)
(* Construction: mpsse_adapter_create and mpsse_adapter_open, then the     *)
(* frequency set by run_instance.                                          *)
(***************************************************************************)
\* the device after the setup commands of mpsse_adapter_open: divisor 29,
\* TMS high; the target is taken to be in Test-Logic-Reset
DevOpened ==
    [tap |-> TEST_LOGIC_RESET, tms |-> 1, sr |-> 0, partial |-> << >>,
     rxq |-> << >>, divisor |-> 29, nclk |-> 0, nsampled |-> 0,
     fault |-> "none"]

mpsse_adapter_open ==
    [tx |-> << >>, rx_num_bytes |-> 0, obs |-> << >>,
     rx_buffer |-> Zeros(max_rx_buffer_bytes),
     max_tx_buffer_bytes |-> max_tx_buffer_bytes,
     max_rx_buffer_bytes |-> max_rx_buffer_bytes,
     flush_threshold |-> flush_threshold,
     state |-> TEST_LOGIC_RESET, last_tdi |-> 0, pool_used |-> 0,
     dev |-> DevOpened, tdo |-> << >>, res |-> << >>, rc |-> 0,
     cur |-> 0, first_pending_bit_idx |-> 0, jtag_state |-> TEST_LOGIC_RESET,
     emitted |-> << >>, writes |-> << >>, nobs |-> 0, nread |-> 0,
     nchunks |-> 0, overflow |-> FALSE, ioerr |-> FALSE, ub |-> FALSE,
     peak_tx |-> 0, peak_rx |-> 0, obs_bytes |-> 0, obs_miss |-> FALSE,
     rx_asked |-> 0, rx_since |-> 0, ran |-> << >>, runs |-> << >>,
     failed_flushes |-> 0, fail_ran |-> FALSE, final_tdi |-> 0]

\* the history fields and the locals of a finished call start afresh with
\* every request
Fresh(c) ==
    [c EXCEPT !.tdo = << >>, !.res = << >>, !.rc = 0, !.cur = 0,
              !.first_pending_bit_idx = 0, !.jtag_state = TEST_LOGIC_RESET,
              !.emitted = << >>, !.writes = << >>, !.nobs = 0, !.nread = 0,
              !.nchunks = 0, !.overflow = FALSE, !.ioerr = FALSE,
              !.dev.nclk = 0, !.dev.nsampled = 0, !.peak_tx = Len(c.tx), !.peak_rx = c.rx_num_bytes,
              !.obs_bytes = 0, !.obs_miss = FALSE, !.rx_asked = 0,
              !.ran = << >>, !.runs = << >>, !.failed_flushes = 0,
              !.fail_ran = FALSE]

(***************************************************************************)
(* The instance around the XVC loop (main.c) and the poll loop             *)
(* (tcp_server.c).  A connection is named by its slot 1..NumClients,       *)
(* 0 is the NULL connection and the empty IP string.                       *)
(***************************************************************************)
Clients == 1..NumClients

\* config->xvc_buffer_size where it is not varied: two scan chunks
xvc_buffer_size == 2 * ChunkBytes

client_ip_matches(i, client_ip) ==
    IF ~i.is_locked THEN TRUE ELSE client_ip = i.locked_client_ip

is_lock_expired(i, t) ==
    IF ~i.is_locked THEN TRUE ELSE t >= i.lock_until

release_client_lock(i) ==
    IF i.is_locked
    THEN [i EXCEPT !.is_locked = FALSE, !.locked_client_ip = 0, !.lock_until = 0]
    ELSE i

set_client_lock(i, client_ip, t, client_lock_timeout) ==
    IF client_lock_timeout > 0
    THEN [i EXCEPT !.locked_client_ip = client_ip,
                   !.lock_until = t + client_lock_timeout,
                   !.is_locked = TRUE]
    ELSE i

\* the instance is locked to a client IP, the lock has not expired at time t
\* and client_ip is another IP
LockedOut(i, client_ip, t) ==
    i.is_locked /\ ~is_lock_expired(i, t) /\ ~client_ip_matches(i, client_ip)

\* returns the instance and the value returned: 1 rejects, 0 accepts
on_client_connect(i, conn, client_ip, t, client_lock_timeout) ==
    LET i1 == IF i.is_locked /\ is_lock_expired(i, t)
              THEN release_client_lock(i) ELSE i
    IN  IF i1.active_xvc_conn # 0 /\ i1.active_xvc_conn # conn
        THEN [inst |-> i1, ret |-> 1]
        ELSE IF i1.is_locked /\ ~client_ip_matches(i1, client_ip)
        THEN [inst |-> i1, ret |-> 1]
        ELSE IF ~i1.is_locked /\ client_lock_timeout > 0
        THEN [inst |-> set_client_lock(i1, client_ip, t, client_lock_timeout),
              ret |-> 0]
        ELSE [inst |-> i1, ret |-> 0]

on_client_disconnect(i, conn, client_ip, t, client_lock_timeout) ==
    IF i.active_xvc_conn = conn
    THEN LET i1 == [i EXCEPT !.active_xvc_conn = 0]
         IN  IF client_lock_timeout > 0
             THEN set_client_lock(i1, client_ip, t, client_lock_timeout)
             ELSE i1
    ELSE i

\* the XVC context of the instance before its first session (memset 0)
XvcNone ==
    [socket_fd |-> 0, alloc |-> FALSE, jtag_state |-> TEST_LOGIC_RESET,
     seen_tlr |-> FALSE, max_vector_size |-> 0, result_buf |-> << >>]

\* entry of the five-argument xvc_handle that on_client_data calls: a context
\* that is not set up for this socket is initialised for it
XvcEnter(x, fd, buffer_size) ==
    IF x.alloc /\ x.socket_fd = fd THEN x
    ELSE xvc_init(fd, buffer_size)

xvc_free(x) == [x EXCEPT !.alloc = FALSE, !.result_buf = << >>]

(***************************************************************************)
(* What clients send.                                                      *)
(***************************************************************************)
LE32(v) == [k \in 1..4 |-> Int32Byte(v, k - 1)] \o << >>

NoVec == << >>

Getinfo == [tag |-> "ge", arg |-> LE32(0), tms |-> NoVec, tdi |-> NoVec]

Settck(period) == [tag |-> "se", arg |-> LE32(period), tms |-> NoVec, tdi |-> NoVec]

Shift(len, tms, tdi) == [tag |-> "sh", arg |-> LE32(len), tms |-> tms, tdi |-> tdi]

BadTag == [tag |-> "xx", arg |-> LE32(0), tms |-> NoVec, tdi |-> NoVec]

\* the peer has closed: read() returns 0
Eof == [tag |-> "eof", arg |-> LE32(0), tms |-> NoVec, tdi |-> NoVec]

\* a TDI pattern of n bytes
Pat(n) == [k \in 1..n |-> (37 * k + 11) % 256] \o << >>

\* n bytes of TMS, all zero but for bit b when b >= 0
OneBit(n, b) ==
    [k \in 1..n |-> IF b >= 0 /\ k = b \div 8 + 1 THEN Pow2(b % 8) ELSE 0] \o << >>

\* lengths of the long shift runs a client asks for
RunBits == {8, 8 * ChunkBytes, 8 * ChunkBytes + 8, 8 * xvc_buffer_size - 3,
            8 * xvc_buffer_size}

Requests ==
    {Getinfo, BadTag, Eof}
    \cup {Settck(p) : p \in {0, 33, 1000, -1}}
    \cup {Shift(6, <<31>>, <<0>>),      \* five ones and a zero: Run-Test-Idle
          Shift(4, <<2>>, <<5>>),       \* Run-Test-Idle to Shift-DR
          Shift(5, <<6>>, <<9>>),       \* Run-Test-Idle to Shift-IR
          Shift(2, <<1>>, <<0>>),       \* Shift to Pause
          Shift(3, <<2>>, <<0>>),       \* Test-Logic-Reset to Capture-DR
          Shift(3, <<3>>, <<0>>),       \* Capture-DR to Run-Test-Idle
          Shift(4, <<11>>, <<0>>),
          Shift(5, <<23>>, <<0>>),
          Shift(8, <<1>>, <<85>>),      \* stays out of the shift states
          Shift(16, <<0, 3>>, <<170, 85>>)}   \* Test-Logic-Reset to Shift-IR
    \cup {Shift(n, OneBit((n + 7) \div 8, b), Pat((n + 7) \div 8)) :
            <<n, b>> \in {<<m, e>> : m \in RunBits, e \in {-1}}
                         \cup {<<m, m - 1>> : m \in RunBits}}
    \cup {Shift(n, NoVec, NoVec) :
            n \in {0, -1, -15, 8 * xvc_buffer_size + 1, 2147483647}}

(***************************************************************************)
(* State.                                                                  *)
(*   mpsse  the engine context and the device                              *)
(*   xvc    the XVC context of the instance                                *)
(*   inst   active_xvc_conn and the client IP lock                         *)
(*   conns  the connection slots of the TCP server                         *)
(*   cfg    the instance configuration                                     *)
(*   now    time(NULL)                                                     *)
(*   busy   the connection xvc_handle is blocked on inside its loop, or 0  *)
(*   last   history: the last pass of the loop, or the last direct scan;   *)
(*          closed tells that the pass ended with the connection closed,   *)
(*          entered that it was the first pass of a new session, known0    *)
(*          that the engine was as mpsse_adapter_open leaves it, foreign   *)
(*          that the connection was made from another IP than the one the  *)
(*          instance was locked to, flushsame that the direct scan gave    *)
(*          the same result with roomy and with tight buffers, nwrites the *)
(*          FT_Writes of the scan, of the roomy and of the tight one,      *)
(*          chunk_bytes the chunk size of the chunked scan and wholesame   *)
(*          that one scan of the whole vector gave the same result,        *)
(*          insync that the session of the pass started with the engine's  *)
(*          stored TAP state at Test-Logic-Reset, as the tracked one,      *)
(*          last_tdi0 the engine's last_tdi before the direct scan and     *)
(*          final_tdi0 the TDI of the final bit of the shift run before it *)
(*   count  history: requests served and device failures so far            *)
(*   rd     the locals of the read loop of mpsse_buffer_flush where its     *)
(*          iterations are followed one by one (SpecFlush)                  *)
(***************************************************************************)
VARIABLES mpsse, xvc, inst, conns, cfg, now, busy, last, count, rd

vars == <<mpsse, xvc, inst, conns, cfg, now, busy, last, count, rd>>

NoConn == [state |-> "CLOSED", ip |-> 0, verdict |-> 0, foreign |-> FALSE]

\* no flush is in its read loop
RdIdle ==
    [pc |-> "idle", rx_num_bytes |-> 0, bytes_read |-> 0, timeout_us |-> 0,
     spin_count |-> 0, ioerr |-> FALSE]

LastNone ==
    [conn |-> 0, q |-> Eof, ret |-> "none", reply |-> << >>, ev |-> << >>,
     jtag0 |-> TEST_LOGIC_RESET, seen0 |-> FALSE, state0 |-> TEST_LOGIC_RESET,
     tms0 |-> 1, active0 |-> 0, rejected |-> FALSE, fault |-> "none",
     replay |-> TEST_LOGIC_RESET, fold |-> TEST_LOGIC_RESET, ops |-> << >>,
     closed |-> FALSE, padsame |-> TRUE, entered |-> FALSE, known0 |-> TRUE,
     foreign |-> FALSE, flushsame |-> TRUE, nwrites |-> <<0, 0, 0>>,
     chunk_bytes |-> 0, wholesame |-> TRUE, insync |-> FALSE,
     last_tdi0 |-> 0, final_tdi0 |-> 0]

\* The reference TAP simulator: the TAP state after the command bytes of
\* emitted are executed from state s0 with the TMS pin at tms0.
Replay(s0, tms0, emitted) ==
    DevWrite([DevOpened EXCEPT !.tap = s0, !.tms = tms0], emitted).tap

\* next_state folded over the bits lo..hi-1 of tms, first half then second
RECURSIVE TmsFold(_, _, _, _)
TmsFold(state, tms, lo, hi) ==
    IF hi <= lo THEN state
    ELSE IF hi = lo + 1 THEN next_state(state, get_bit(tms, lo) = 1)
    ELSE LET mid == (lo + hi) \div 2
             m == TmsFold(state, tms, lo, mid)
         IN  IF m \notin TapStates THEN m ELSE TmsFold(m, tms, mid, hi)

\* the opcodes of the commands in a stream of command bytes, in order
RECURSIVE Opcodes(_)
Opcodes(bytes) ==
    IF bytes = << >> THEN << >>
    ELSE LET op == bytes[1]
             size == IF op = OP_CLK_DATA_BYTES_OUT_NEG_IN_POS
                     THEN IF Len(bytes) >= 3 THEN 4 + bytes[2] + 256 * bytes[3]
                          ELSE 3
                     ELSE IF op = OP_DISABLE_CLK_DIVIDE_BY_5 \/ op = OP_LOOPBACK_OFF
                     THEN 1
                     ELSE 3
         IN  <<op>> \o Opcodes(SubSeq(bytes, size + 1, Len(bytes)))

DEFAULT_FREQUENCY == 30000000

\* run_instance: the device is opened, and ftdi_adapter_set_frequency is
\* called when the configured frequency is positive
InstanceStart(frequency) ==
    IF frequency > 0
    THEN Fresh(mpsse_adapter_set_frequency(mpsse_adapter_open, frequency).c)
    ELSE mpsse_adapter_open

Init ==
    /\ cfg \in [frequency : {0, DEFAULT_FREQUENCY}, client_lock_timeout : {0, 1},
                 xvc_buffer_size : {xvc_buffer_size}]
    /\ mpsse = InstanceStart(cfg.frequency)
    /\ xvc = XvcNone
    /\ inst = [active_xvc_conn |-> 0, is_locked |-> FALSE,
               locked_client_ip |-> 0, lock_until |-> 0]
    /\ conns = [c \in Clients |-> NoConn]
    /\ now = 0
    /\ busy = 0
    /\ last = LastNone
    /\ count = [requests |-> 0, faults |-> 0]
    /\ rd = RdIdle

\* the engine as mpsse_adapter_open leaves it: TAP state Test-Logic-Reset,
\* last_tdi 0, nothing in the TX buffer, no reply byte expected, no observer
EngineKnown(c) ==
    /\ c.state = TEST_LOGIC_RESET
    /\ c.last_tdi = 0
    /\ c.tx = << >>
    /\ c.rx_num_bytes = 0
    /\ c.obs = << >>

\* byte b with its bits r..7 inverted
PaddedByte(b, r) == (b % Pow2(r)) + (256 - Pow2(r)) - (b - (b % Pow2(r)))

\* the shift request q as another client may send it: the same len, the same
\* bits 0..len-1 of TMS and TDI, the bits past len in the last byte of each
\* half inverted
Padded(q) ==
    LET len == xvc_get_int32(q.arg)
        n == Len(q.tms)
    IN  IF q.tag = "sh" /\ len > 0 /\ len % 8 # 0 /\ n = (len - 1) \div 8 + 1
           /\ Len(q.tdi) = n
        THEN [q EXCEPT !.tms[n] = PaddedByte(@, len % 8),
                       !.tdi[n] = PaddedByte(@, len % 8)]
        ELSE q

\* two passes of the loop end alike: the value returned, the reply, the TAP
\* state and seen_tlr of the session, the state of the engine, and the TAP
\* state, TMS pin, last TDI bit and number of clocks at the device
SameOutcome(a, b) ==
    /\ a.ret = b.ret
    /\ a.reply = b.reply
    /\ a.x.jtag_state = b.x.jtag_state
    /\ a.x.seen_tlr = b.x.seen_tlr
    /\ a.c.state = b.c.state
    /\ a.c.last_tdi = b.c.last_tdi
    /\ a.c.dev.tap = b.c.dev.tap
    /\ a.c.dev.tms = b.c.dev.tms
    /\ a.c.dev.nclk = b.c.dev.nclk

\* the pass on q that ended as out ends alike on Padded(q)
PadBlind(x, c, q, frequency, wrap, out) ==
    Padded(q) = q \/ SameOutcome(out, XvcPass(x, c, Padded(q), frequency, wrap))

(***************************************************************************)
(* Actions of the server.                                                  *)
(***************************************************************************)
Crashed == last.ret = "crash"

\* tcp_server_poll accepts a connection into slot c: on_connect is called
\* and the value it returns is not looked at
Accept(c, ip) ==
    /\ ~Crashed
    /\ busy = 0
    /\ conns[c].state = "CLOSED"
    /\ LET r == on_client_connect(inst, c, ip, now, cfg.client_lock_timeout)
       IN  /\ inst' = r.inst
           /\ conns' = [conns EXCEPT ![c] = [state |-> "CONNECTED", ip |-> ip,
                                             verdict |-> r.ret,
                                             foreign |-> LockedOut(inst, ip, now)]]
    /\ UNCHANGED <<mpsse, xvc, cfg, now, busy, last, count, rd>>

\* tcp_server_close_connection
CloseConnection(i, cs, c) ==
    [inst |-> on_client_disconnect(i, c, cs[c].ip, now, cfg.client_lock_timeout),
     conns |-> [cs EXCEPT ![c] = NoConn]]

\* tcp_server_poll finds an exception pending on the socket of slot c
SocketException(c) ==
    /\ ~Crashed
    /\ busy = 0
    /\ conns[c].state # "CLOSED"
    /\ LET r == CloseConnection(inst, conns, c)
       IN  inst' = r.inst /\ conns' = r.conns
    /\ UNCHANGED <<mpsse, xvc, cfg, now, busy, last, count, rd>>

\* Slot c is readable and q is what the client has sent.  With busy = 0 this
\* is tcp_server_poll calling on_client_data, which enters xvc_handle; with
\* busy = c it is the next pass of the loop xvc_handle is already in.  The
\* device fails in manner f while the request is served; wrap picks the
\* outcome of an overflowing len + 7.
Serve(c, q, f, wrap) ==
    /\ ~Crashed
    /\ count.requests < MaxRequests
    /\ count.faults < MaxFaults
    /\ busy \in {0, c}
    /\ conns[c].state # "CLOSED"
    /\ LET i1 == IF busy = 0 /\ inst.active_xvc_conn = 0
                 THEN [inst EXCEPT !.active_xvc_conn = c] ELSE inst
           x0 == IF busy = 0 THEN XvcEnter(xvc, c, cfg.xvc_buffer_size) ELSE xvc
           c0 == [Fresh(mpsse) EXCEPT !.dev.fault = f]
       IN  \E out \in {XvcPass(x0, c0, q, cfg.frequency, wrap)} :
           LET c1 == [out.c EXCEPT !.dev.fault = "none", !.tdo = << >>,
                                   !.res = << >>, !.cur = 0,
                                   !.first_pending_bit_idx = 0,
                                   !.jtag_state = TEST_LOGIC_RESET]
               closing == out.ret \in {"1", "-1"}
               \* on_client_data: xvc_close, xvc_free, active_xvc_conn = NULL
               i2 == IF closing THEN [i1 EXCEPT !.active_xvc_conn = 0] ELSE i1
               r == IF closing THEN CloseConnection(i2, conns, c)
                    ELSE [inst |-> i2,
                          conns |-> [conns EXCEPT ![c].state = "ACTIVE"]]
           IN  /\ xvc' = IF closing THEN xvc_free(out.x) ELSE out.x
               /\ mpsse' = IF closing THEN MarkStale(c1) ELSE c1
               /\ inst' = r.inst
               /\ conns' = r.conns
               /\ busy' = IF out.ret = "loop" THEN c ELSE 0
               /\ last' = [conn |-> c, q |-> q, ret |-> out.ret,
                           reply |-> out.reply, ev |-> out.ev,
                           jtag0 |-> x0.jtag_state, seen0 |-> x0.seen_tlr,
                           state0 |-> mpsse.state, tms0 |-> mpsse.dev.tms,
                           active0 |-> IF busy = 0 THEN inst.active_xvc_conn
                                       ELSE c,
                           rejected |-> conns[c].verdict = 1, fault |-> f,
                           replay |-> Replay(mpsse.state, mpsse.dev.tms,
                                             out.c.emitted),
                           fold |-> TEST_LOGIC_RESET,
                           ops |-> Opcodes(out.c.emitted),
                           closed |-> r.conns[c].state = "CLOSED",
                           padsame |-> PadBlind(x0, c0, q, cfg.frequency, wrap,
                                                out),
                           entered |-> busy = 0
                                       /\ ~(xvc.alloc /\ xvc.socket_fd = c),
                           known0 |-> EngineKnown(mpsse),
                           foreign |-> conns[c].foreign,
                           insync |-> IF busy = 0
                                         /\ ~(xvc.alloc /\ xvc.socket_fd = c)
                                      THEN mpsse.state = TEST_LOGIC_RESET
                                      ELSE last.insync]
    /\ count' = [requests |-> count.requests + 1,
                 faults |-> count.faults + (IF f = "none" THEN 0 ELSE 1)]
    /\ UNCHANGED <<cfg, now, rd>>

Tick ==
    /\ now < MaxTime
    /\ now' = now + 1
    /\ UNCHANGED <<mpsse, xvc, inst, conns, cfg, busy, last, count, rd>>

\* the device is written by settck, and written and read by a shift of a
\* valid length
FaultsOf(q) ==
    IF q.tag = "se" THEN DevFaults \ {"no_data"}
    ELSE IF q.tag = "sh" /\ q.tms # NoVec THEN DevFaults
    ELSE {"none"}

WrapsOf(q) ==
    IF q.tag = "sh" /\ xvc_get_int32(q.arg) > 2147483640 THEN BOOLEAN ELSE {FALSE}

(***************************************************************************)
(* Spec: the instance with its clients, connections coming and going, and  *)
(* a few requests on each.                                                 *)
(***************************************************************************)
NetRequests ==
    {Getinfo, BadTag, Eof, Shift(6, <<31>>, <<0>>), Shift(4, <<2>>, <<5>>),
     Shift(2, <<1>>, <<0>>)}

Next ==
    \/ \E c \in Clients, ip \in 1..2 : Accept(c, ip)
    \/ \E c \in Clients : SocketException(c)
    \/ \E c \in Clients, q \in NetRequests : Serve(c, q, "none", FALSE)
    \/ Tick

Spec == Init /\ [][Next]_vars

(***************************************************************************)
(* SpecXvc: one client, every request, and a device that may fail.         *)
(***************************************************************************)
InitXvc ==
    /\ cfg \in [frequency : {0, DEFAULT_FREQUENCY}, client_lock_timeout : {0},
                 xvc_buffer_size : {xvc_buffer_size}]
    /\ mpsse = InstanceStart(cfg.frequency)
    /\ xvc = XvcNone
    /\ inst = [active_xvc_conn |-> 0, is_locked |-> FALSE,
               locked_client_ip |-> 0, lock_until |-> 0]
    /\ conns = [c \in Clients |-> NoConn]
    /\ now = 0
    /\ busy = 0
    /\ last = LastNone
    /\ count = [requests |-> 0, faults |-> 0]
    /\ rd = RdIdle

NextXvc ==
    \/ Accept(1, 1)
    \/ \E q \in Requests : \E f \in FaultsOf(q) : \E wrap \in WrapsOf(q) :
          Serve(1, q, f, wrap)

SpecXvc == InitXvc /\ [][NextXvc]_vars

(***************************************************************************)
(* SpecScan: a caller of the engine API runs mpsse_adapter_scan on vectors *)
(* of its own, one scan after the other on the opened device.              *)
(***************************************************************************)
Scan(bits, tms, tdi) == [tag |-> "scan", arg |-> LE32(bits), tms |-> tms, tdi |-> tdi]

\* every TMS vector of 1, 2 and 4 bits
ShortScans ==
    {Scan(n, <<v>>, <<165>>) : <<n, v>> \in {<<m, w>> \in {1, 2, 4} \X (0..15) : w < Pow2(m)}}

\* TMS vectors that need several TMS commands, cross byte boundaries, or enter
\* and leave a shift state inside the vector
MixedScans ==
    {Scan(6, <<31>>, <<0>>), Scan(7, <<0>>, <<90>>), Scan(7, <<64>>, <<90>>),
     Scan(9, <<0, 0>>, Pat(2)), Scan(9, <<0, 1>>, Pat(2)),
     Scan(13, <<85, 21>>, Pat(2)), Scan(14, <<2, 48>>, Pat(2)),
     Scan(17, <<0, 0, 0>>, Pat(3)), Scan(17, <<0, 0, 1>>, Pat(3)),
     Scan(20, <<0, 16, 8>>, Pat(3))}

\* runs with TMS low up to the last bit: the whole bytes of the run fill the
\* chip buffer, exceed it by one byte, exceed it by two bytes and some bits
RunScanBits ==
    {8 * chip_buffer_size + 1, 8 * (chip_buffer_size + 1) + 1,
     8 * (chip_buffer_size + 2) + 6}

RunScans ==
    {Scan(n, OneBit((n + 7) \div 8, b), Pat((n + 7) \div 8)) :
       <<n, b>> \in {<<m, -1>> : m \in RunScanBits}
                    \cup {<<m, m - 1>> : m \in RunScanBits}}

ScanInputs == ShortScans \cup MixedScans \cup RunScans

InitScan ==
    /\ cfg = [frequency |-> 0, client_lock_timeout |-> 0,
              xvc_buffer_size |-> xvc_buffer_size]
    /\ mpsse = InstanceStart(cfg.frequency)
    /\ xvc = XvcNone
    /\ inst = [active_xvc_conn |-> 0, is_locked |-> FALSE,
               locked_client_ip |-> 0, lock_until |-> 0]
    /\ conns = [c \in Clients |-> NoConn]
    /\ now = 0
    /\ busy = 0
    /\ last = LastNone
    /\ count = [requests |-> 0, faults |-> 0]
    /\ rd = RdIdle

\* The engine with other buffers: roomy ones take all commands of a scan,
\* so that nothing is written before the flush that ends the scan; tight
\* ones hold one payload of chip_buffer_size bytes and are flushed before
\* every append that finds a byte in them.
RoomyBytes == 8 * max_tx_buffer_bytes

Roomy(c) ==
    [c EXCEPT !.max_tx_buffer_bytes = RoomyBytes,
              !.max_rx_buffer_bytes = RoomyBytes,
              !.flush_threshold = RoomyBytes,
              !.rx_buffer = @ \o Zeros(RoomyBytes - Len(@))]

Tight(c) ==
    [c EXCEPT !.max_tx_buffer_bytes = chip_buffer_size,
              !.max_rx_buffer_bytes = chip_buffer_size,
              !.flush_threshold = 1,
              !.rx_buffer = SubSeq(@ \o Zeros(chip_buffer_size), 1,
                                   chip_buffer_size)]

\* two runs of a scan returned the same, appended the same command bytes,
\* filled the TDO buffer alike and left the device in the same TAP state
SameScan(a, b) ==
    /\ a.rc = b.rc
    /\ a.emitted = b.emitted
    /\ a.tdo = b.tdo
    /\ a.dev.tap = b.dev.tap

\* mpsse_adapter_scan(ctx, tms, tdi, tdo, bits) with a zeroed tdo buffer of
\* (bits + 7) / 8 bytes; the caller releases the buffer when the scan fails
DirectScan(q) ==
    /\ count.requests < MaxRequests
    /\ LET bits == xvc_get_int32(q.arg)
           c0 == [Fresh(mpsse) EXCEPT !.tdo = Zeros((bits + 7) \div 8)]
       IN  \E out \in {mpsse_adapter_scan(c0, q.tms, q.tdi, bits)},
              roomy \in {mpsse_adapter_scan(Roomy(c0), q.tms, q.tdi, bits)},
              tight \in {mpsse_adapter_scan(Tight(c0), q.tms, q.tdi, bits)} :
           LET c1 == [out EXCEPT !.rc = 0, !.cur = 0,
                                 !.first_pending_bit_idx = 0,
                                 !.jtag_state = TEST_LOGIC_RESET]
           IN  /\ mpsse' = IF out.rc # 0 THEN MarkStale(c1) ELSE c1
               /\ last' = [LastNone EXCEPT
                              !.q = q,
                              !.ret = IF out.rc = 0 THEN "0" ELSE "-1",
                              !.reply = out.tdo,
                              !.state0 = mpsse.state,
                              !.tms0 = mpsse.dev.tms,
                              !.last_tdi0 = mpsse.last_tdi,
                              !.final_tdi0 = mpsse.final_tdi,
                              !.replay = Replay(mpsse.state, mpsse.dev.tms,
                                                out.emitted),
                              !.fold = TmsFold(mpsse.state, q.tms, 0, bits),
                              !.ops = Opcodes(out.emitted),
                              !.flushsame = /\ SameScan(out, roomy)
                                            /\ SameScan(out, tight),
                              !.nwrites = <<Len(out.writes), Len(roomy.writes),
                                            Len(tight.writes)>>]
    /\ count' = [count EXCEPT !.requests = @ + 1]
    /\ UNCHANGED <<xvc, inst, conns, cfg, now, busy, rd>>

NextScan == \E q \in ScanInputs : DirectScan(q)

SpecScan == InitScan /\ [][NextScan]_vars

(***************************************************************************)
(* SpecChunk: a caller of the adapter API runs ftdi_adapter_scan_chunked   *)
(* on vectors and with chunk sizes of its own.                             *)
(***************************************************************************)
\* chunks of one byte, of the size xvc_handle uses, and of one byte more
\* than the chip buffer
ChunkSizes == {1, ChunkBytes, chip_buffer_size + 1}

\* the vectors of four bits, the mixed vectors and the long runs
ChunkInputs ==
    {q \in ShortScans : xvc_get_int32(q.arg) = 4} \cup MixedScans \cup RunScans

\* a chunked scan and one scan of the whole vector returned the same, gave
\* the same bits 0..bits-1 of TDO and left the same TAP state, in the
\* engine and in the device
SameAsWhole(chunked, whole, bits) ==
    /\ chunked.rc = whole.rc
    /\ chunked.state = whole.state
    /\ chunked.dev.tap = whole.dev.tap
    /\ \A i \in 0..(bits - 1) : get_bit(chunked.res, i) = get_bit(whole.tdo, i)

InitChunk == InitScan

\* ftdi_adapter_scan_chunked(ctx, tms, tdi, tdo, bits, chunk_bytes) with a
\* zeroed tdo buffer of (bits + 7) / 8 bytes
ChunkedScan(q, chunk_bytes) ==
    /\ count.requests < MaxRequests
    /\ LET bits == xvc_get_int32(q.arg)
           c0 == [Fresh(mpsse) EXCEPT !.tdo = Zeros((bits + 7) \div 8),
                                      !.res = Zeros((bits + 7) \div 8)]
       IN  \E out \in {ftdi_adapter_scan_chunked(c0, q.tms, q.tdi, bits,
                                                 chunk_bytes)},
              whole \in {ftdi_adapter_scan(c0, q.tms, q.tdi, bits)} :
           LET c1 == [out EXCEPT !.rc = 0, !.cur = 0,
                                 !.first_pending_bit_idx = 0,
                                 !.jtag_state = TEST_LOGIC_RESET]
           IN  /\ mpsse' = IF out.rc # 0 THEN MarkStale(c1) ELSE c1
               /\ last' = [LastNone EXCEPT
                              !.q = q,
                              !.ret = IF out.rc = 0 THEN "0" ELSE "-1",
                              !.reply = out.res,
                              !.state0 = mpsse.state,
                              !.tms0 = mpsse.dev.tms,
                              !.fold = TmsFold(mpsse.state, q.tms, 0, bits),
                              !.ops = Opcodes(out.emitted),
                              !.chunk_bytes = chunk_bytes,
                              !.wholesame = SameAsWhole(out, whole, bits)]
    /\ count' = [count EXCEPT !.requests = @ + 1]
    /\ UNCHANGED <<xvc, inst, conns, cfg, now, busy, rd>>

NextChunk == \E q \in ChunkInputs : \E chunk_bytes \in ChunkSizes :
                ChunkedScan(q, chunk_bytes)

SpecChunk == InitChunk /\ [][NextChunk]_vars

(***************************************************************************)
(* SpecFlush: the read part of mpsse_buffer_flush, one iteration of its    *)
(* loop at a time, against a device that answers FT_GetQueueStatus and     *)
(* FT_Read as it likes.  The write part has succeeded.                     *)
(***************************************************************************)
\* "int timeout_us = 500000": SleepBudget sleeps of 10 us
FlushTimeoutUs == 10 * SleepBudget

\* const int max_spin
max_spin == MaxSpin

\* b->rx_num_bytes at the flush
FlushDemands == 0..(ChunkBytes + 1)

InitFlush ==
    /\ cfg = [frequency |-> 0, client_lock_timeout |-> 0,
              xvc_buffer_size |-> xvc_buffer_size]
    /\ mpsse = InstanceStart(cfg.frequency)
    /\ xvc = XvcNone
    /\ inst = [active_xvc_conn |-> 0, is_locked |-> FALSE,
               locked_client_ip |-> 0, lock_until |-> 0]
    /\ conns = [c \in Clients |-> NoConn]
    /\ now = 0
    /\ busy = 0
    /\ last = LastNone
    /\ count = [requests |-> 0, faults |-> 0]
    /\ rd = RdIdle

\* mpsse_buffer_flush reaches "if (b->rx_num_bytes > 0)" with n bytes
\* expected: the locals of the loop are set up, or 0 is returned at once
FlushReadEnter(n) ==
    /\ rd.pc = "idle"
    /\ rd' = [pc |-> IF n > 0 THEN "loop" ELSE "ok", rx_num_bytes |-> n,
              bytes_read |-> 0, timeout_us |-> FlushTimeoutUs,
              spin_count |-> 0, ioerr |-> FALSE]
    /\ UNCHANGED <<mpsse, xvc, inst, conns, cfg, now, busy, last, count>>

\* the test of the while loop
ReadGoesOn == rd.bytes_read < rd.rx_num_bytes /\ rd.timeout_us > 0

\* One iteration of the loop.  FT_GetQueueStatus returns status_ok and
\* rxQueue; FT_Read, when it is called, returns read_ok and actualRead out of
\* the toRead bytes asked for.
ReadPoll(status_ok, rxQueue, read_ok, actualRead) ==
    /\ rd.pc = "loop"
    /\ ReadGoesOn
    /\ LET toRead == min(rxQueue, rd.rx_num_bytes - rd.bytes_read)
       IN  /\ actualRead <= toRead
           /\ rd' = IF ~status_ok
                    THEN [rd EXCEPT !.pc = "fail", !.ioerr = TRUE]
                    ELSE IF rxQueue > 0
                    THEN IF ~read_ok
                         THEN [rd EXCEPT !.pc = "fail", !.ioerr = TRUE]
                         ELSE [rd EXCEPT !.bytes_read = @ + actualRead,
                                         !.spin_count = 0]
                    ELSE IF rd.spin_count < max_spin
                    THEN [rd EXCEPT !.spin_count = @ + 1]
                    ELSE [rd EXCEPT !.timeout_us = @ - 10]
    /\ UNCHANGED <<mpsse, xvc, inst, conns, cfg, now, busy, last, count>>

\* the loop is left: "if (bytes_read != b->rx_num_bytes) return -1", else
\* the observers run and 0 is returned
ReadLeave ==
    /\ rd.pc = "loop"
    /\ ~ReadGoesOn
    /\ rd' = [rd EXCEPT !.pc = IF rd.bytes_read # rd.rx_num_bytes THEN "fail"
                                ELSE "ok"]
    /\ UNCHANGED <<mpsse, xvc, inst, conns, cfg, now, busy, last, count>>

\* mpsse_buffer_flush has returned
FlushReturn ==
    /\ rd.pc \in {"ok", "fail"}
    /\ rd' = RdIdle
    /\ UNCHANGED <<mpsse, xvc, inst, conns, cfg, now, busy, last, count>>

\* the steps of the running loop
FlushStep ==
    \/ \E status_ok \in BOOLEAN, rxQueue \in 0..(rd.rx_num_bytes + 1),
          read_ok \in BOOLEAN, actualRead \in 0..rd.rx_num_bytes :
          ReadPoll(status_ok, rxQueue, read_ok, actualRead)
    \/ ReadLeave

NextFlush ==
    \/ \E n \in FlushDemands : FlushReadEnter(n)
    \/ FlushStep
    \/ FlushReturn

\* the thread in the loop keeps running: a step of the loop that can be
\* taken is taken
SpecFlush == InitFlush /\ [][NextFlush]_vars /\ WF_vars(FlushStep)

(***************************************************************************)
(* SpecCfg: one client on instances configured with vector sizes in and    *)
(* out of the range 1..XVC_MAX_VECTOR_SIZE_LIMIT.                          *)
(***************************************************************************)
ConfiguredSizes ==
    {-1, 0, 1, xvc_buffer_size, XVC_DEFAULT_MAX_VECTOR_SIZE,
     XVC_MAX_VECTOR_SIZE_LIMIT, XVC_MAX_VECTOR_SIZE_LIMIT + 1}

CfgRequests == {Getinfo, Eof, Shift(6, <<31>>, <<0>>)}

InitCfg ==
    /\ cfg \in [frequency : {0}, client_lock_timeout : {0},
                 xvc_buffer_size : ConfiguredSizes]
    /\ mpsse = InstanceStart(cfg.frequency)
    /\ xvc = XvcNone
    /\ inst = [active_xvc_conn |-> 0, is_locked |-> FALSE,
               locked_client_ip |-> 0, lock_until |-> 0]
    /\ conns = [c \in Clients |-> NoConn]
    /\ now = 0
    /\ busy = 0
    /\ last = LastNone
    /\ count = [requests |-> 0, faults |-> 0]
    /\ rd = RdIdle

NextCfg ==
    \/ Accept(1, 1)
    \/ \E q \in CfgRequests : Serve(1, q, "none", FALSE)

SpecCfg == InitCfg /\ [][NextCfg]_vars

(***************************************************************************)
(* Properties.  last describes the request or scan that was served last.   *)
(***************************************************************************)
\* the length field of the last request
LastLen == xvc_get_int32(last.q.arg)

\* the last request kept TMS low on every bit before its last one
TmsLowToLastBit == \A i \in 0..(LastLen - 2) : get_bit(last.q.tms, i) = 0

Count(op, ops) == Cardinality({k \in 1..Len(ops) : ops[k] = op})

\* a > 0, b > 0: a / b rounded up
CeilDiv(a, b) == (a + b - 1) \div b

\* ceil(len / 8) of the last request, for a length of either sign
LastBytes == (LastLen - 1) \div 8 + 1

(***************************************************************************)
(* Properties of mpsse_adapter_scan (SpecScan).                            *)
(***************************************************************************)
\* C1: with the device in loopback and the TAP in Shift-DR at the start of
\* the scan, a scan of any bit_count >= 1 whose TMS keeps the TAP in Shift-DR
\* until the last bit succeeds and returns TDO[i] = TDI[i] for every i in
\* [0, bit_count).
C1_LoopbackScan ==
    (/\ last.q.tag = "scan"
     /\ last.state0 = SHIFT_DR
     /\ LastLen >= 1
     /\ TmsLowToLastBit)
    => /\ last.ret = "0"
       /\ \A i \in 0..(LastLen - 1) :
              get_bit(last.reply, i) = get_bit(last.q.tdi, i)

\* C2: for every scan that succeeds, replaying the TMS values clocked by
\* the emitted commands through the reference TAP simulator ends in the
\* state that mpsse_adapter_scan stores, and that state is next_state folded
\* over TMS[0..bit_count).
C2_ReplayAgrees ==
    (last.q.tag = "scan" /\ last.ret = "0")
    => /\ mpsse.state = last.fold
       /\ last.replay = mpsse.state

\* C21: during and after the encoding of every vector the TX buffer holds
\* at most max_tx_buffer_bytes bytes and at most max_rx_buffer_bytes reply
\* bytes are expected, and mpsse_buffer_append never meets a "buffer
\* overflow after flush".
C21_BuffersWithinCapacity ==
    /\ 0 <= Len(mpsse.tx) /\ Len(mpsse.tx) <= mpsse.peak_tx
    /\ mpsse.peak_tx <= max_tx_buffer_bytes
    /\ 0 <= mpsse.rx_num_bytes /\ mpsse.rx_num_bytes <= mpsse.peak_rx
    /\ mpsse.peak_rx <= max_rx_buffer_bytes
    /\ \A k \in 1..Len(mpsse.writes) : mpsse.writes[k] <= max_tx_buffer_bytes
    /\ ~mpsse.overflow

\* a scan has succeeded that filled the RX buffer to its capacity and was
\* flushed more than once
C21_Witness ==
    /\ last.q.tag = "scan"
    /\ last.ret = "0"
    /\ mpsse.peak_rx = max_rx_buffer_bytes
    /\ Len(mpsse.writes) >= 2
    /\ ~mpsse.overflow

\* C22: every FT_Write issued by mpsse_buffer_flush carries at most
\* chip_buffer_size (65536) bytes, for every vector that mpsse_adapter_scan
\* accepts.
C22_WritesWithinChipBuffer ==
    \A k \in 1..Len(mpsse.writes) : mpsse.writes[k] <= chip_buffer_size

\* C23: between buffer operations the RX bytes taken by the queued
\* observers add up to rx_num_bytes, and over a scan that succeeds the RX
\* bytes taken by all observers appended add up to the RX bytes read from
\* the device.
C23_ObserversMatchRxLen ==
    /\ ~mpsse.obs_miss
    /\ SourceLens(mpsse.obs) = mpsse.rx_num_bytes
    /\ (last.q.tag = "scan" /\ last.ret = "0") => mpsse.obs_bytes = mpsse.nread

\* the bytes of the first command of a stream of command bytes
CmdLen(bytes) ==
    IF bytes[1] = OP_CLK_DATA_BYTES_OUT_NEG_IN_POS
    THEN IF Len(bytes) >= 3 THEN 4 + bytes[2] + 256 * bytes[3] ELSE 3
    ELSE IF bytes[1] \in {OP_DISABLE_CLK_DIVIDE_BY_5, OP_LOOPBACK_OFF} THEN 1
    ELSE 3

\* the commands of a stream that are there with all their bytes and read
\* back: how many they are (n) and the RX bytes they return (rx)
RECURSIVE Readbacks(_)
Readbacks(bytes) ==
    IF bytes = << >> \/ Len(bytes) < CmdLen(bytes) THEN [n |-> 0, rx |-> 0]
    ELSE LET op == bytes[1]
             rest == Readbacks(SubSeq(bytes, CmdLen(bytes) + 1, Len(bytes)))
         IN  IF op = OP_CLK_DATA_BYTES_OUT_NEG_IN_POS
             THEN [n |-> rest.n + 1, rx |-> rest.rx + CmdLen(bytes) - 3]
             ELSE IF op \in {OP_CLK_DATA_BITS_OUT_NEG_IN_POS, OP_CLK_TMS_READ}
             THEN [n |-> rest.n + 1, rx |-> rest.rx + 1]
             ELSE rest

\* C24: each 0x3B, 0x39 and 0x6B command appended brings exactly one
\* observer and its RX bytes (one byte, or the payload length); the 0x4B,
\* divisor and GPIO commands bring no observer and ask for no RX byte.
C24_OneObserverPerReadback ==
    /\ mpsse.nobs = Readbacks(mpsse.emitted).n
    /\ mpsse.rx_asked = Readbacks(mpsse.emitted).rx

\* C25: a flush runs the observers in the order of their append, each of
\* them once, the k-th on the RX staging area at the offset that is the sum
\* of the RX bytes of the commands appended before it since the previous
\* flush; after the flush the list is empty.
C25_ObserversInOrder ==
    /\ \A k \in 1..Len(mpsse.ran) :
          ~mpsse.ran[k].stale
          => /\ mpsse.ran[k].id
                = Cardinality({j \in 1..k : ~mpsse.ran[j].stale})
             /\ mpsse.ran[k].data = mpsse.ran[k].want
    /\ (last.q.tag = "scan" /\ last.ret = "0")
       => /\ mpsse.obs = << >>
          /\ Cardinality({j \in 1..Len(mpsse.ran) : ~mpsse.ran[j].stale})
             = mpsse.nobs

\* a scan flushed twice, and an observer of each flush read further on than
\* the first byte of the staging area
C25_Witness ==
    /\ last.q.tag = "scan" /\ last.ret = "0"
    /\ Len(mpsse.writes) >= 2
    /\ Len(mpsse.ran) >= 4
    /\ \E j, k \in 1..Len(mpsse.ran) :
          /\ j < k /\ mpsse.ran[j].data > 0
          /\ mpsse.ran[k].data = 0
          /\ \E m \in (k + 1)..Len(mpsse.ran) : mpsse.ran[m].data > 0

\* the TAP is in Shift-DR or Shift-IR before bit i of the last scan
ShiftingBefore(i) ==
    TmsFold(last.state0, last.q.tms, 0, i) \in {SHIFT_DR, SHIFT_IR}

\* C26: the runs of bits a scan hands to append_tms_shift and
\* append_tdi_shift are not empty, follow each other from bit 0 without gap
\* or overlap and, when the scan returns 0, end at bit_count; every bit of a
\* run handed to append_tdi_shift is clocked with the TAP in Shift-DR or
\* Shift-IR and no bit of a run handed to append_tms_shift is; a run ends
\* at the last bit of the vector or at a bit that enters or leaves
\* Shift-DR / Shift-IR.
C26_RunsPartitionVector ==
    last.q.tag = "scan" =>
        LET runs == mpsse.runs
        IN  /\ \A k \in 1..Len(runs) :
                  /\ runs[k].from = IF k = 1 THEN 0 ELSE runs[k - 1].to
                  /\ runs[k].from < runs[k].to
                  /\ runs[k].to <= LastLen
                  /\ \A i \in runs[k].from..(runs[k].to - 1) :
                        ShiftingBefore(i) <=> runs[k].kind = "tdi"
                  /\ \/ runs[k].to = LastLen
                     \/ ShiftingBefore(runs[k].to - 1) # ShiftingBefore(runs[k].to)
            /\ last.ret = "0"
               => Len(runs) >= 1 /\ runs[Len(runs)].to = LastLen

\* a scan through Shift-IR in three runs: up to the bit that enters the
\* shift state, up to the bit that leaves it, and the rest
C26_Witness ==
    /\ last.q.tag = "scan" /\ last.ret = "0"
    /\ Len(mpsse.runs) = 3
    /\ mpsse.runs[2].kind = "tdi"
    /\ mpsse.runs[2].to - mpsse.runs[2].from >= 2
    /\ TmsFold(last.state0, last.q.tms, 0, mpsse.runs[2].from) = SHIFT_IR

\* C27: the commands of a scan that returns 0 clock bit_count TCK cycles,
\* one for each bit in ascending order: the TAP follows the TMS bits, TDO is
\* sampled in the cycles of the bits before which the TAP is in Shift-DR or
\* Shift-IR and in no other, and for such a bit i the cycle drives TDI[i]
\* and what it samples (TDI[i], the device looping back) is stored at
\* TDO[i].
C27_OneCyclePerBit ==
    (last.q.tag = "scan" /\ last.ret = "0")
    => /\ mpsse.dev.nclk = LastLen
       /\ mpsse.dev.tap = last.fold
       /\ mpsse.dev.nsampled
          = Cardinality({i \in 0..(LastLen - 1) : ShiftingBefore(i)})
       /\ \A i \in 0..(LastLen - 1) :
             ShiftingBefore(i)
             => get_bit(last.reply, i) = get_bit(last.q.tdi, i)

\* the whole bytes before the last bit of a run that starts at bit 0
MiddleBytes == (LastLen - 1) \div 8

\* C28: a run shifted in Shift-DR from bit 0 to the last bit whose whole
\* bytes are more than chip_buffer_size succeeds; its middle goes out as
\* consecutive 0x39 commands of at most chip_buffer_size bytes, each with an
\* observer of its own, then come the trailing bits (0x3B) if there are
\* any, then the exit bit (0x6B); every TDO byte of the middle holds the
\* byte the device returned for it (the TDI byte, the device looping back).
C28_LongRunSubChunked ==
    (/\ last.q.tag = "scan"
     /\ last.state0 = SHIFT_DR
     /\ TmsLowToLastBit
     /\ MiddleBytes > chip_buffer_size)
    => /\ last.ret = "0"
       /\ Count(OP_CLK_DATA_BYTES_OUT_NEG_IN_POS, last.ops)
          = CeilDiv(MiddleBytes, chip_buffer_size)
       /\ \A k \in 1..Len(last.ops) :
             last.ops[k] = IF k <= CeilDiv(MiddleBytes, chip_buffer_size)
                           THEN OP_CLK_DATA_BYTES_OUT_NEG_IN_POS
                           ELSE IF k < Len(last.ops)
                           THEN OP_CLK_DATA_BITS_OUT_NEG_IN_POS
                           ELSE OP_CLK_TMS_READ
       /\ Count(OP_CLK_DATA_BITS_OUT_NEG_IN_POS, last.ops)
          = IF (LastLen - 1) % 8 = 0 THEN 0 ELSE 1
       /\ mpsse.nobs = Len(last.ops)
       /\ \A b \in 1..MiddleBytes : last.reply[b] = last.q.tdi[b]

\* C29: a flush in the middle of a run changes nothing: with buffers that
\* are never flushed before the end of the scan, and with buffers flushed
\* before every append (so between the header of a 0x39 command and its
\* payload), a scan returns the same, appends the same command bytes and
\* fills the TDO buffer alike.
C29_FlushPointsDoNotMatter == last.q.tag = "scan" => last.flushsame

\* a scan with a 0x39 command that was flushed in the middle, not flushed
\* before its end with roomy buffers, and flushed at every command and
\* between header and payload with tight ones
C29_Witness ==
    /\ last.q.tag = "scan" /\ last.ret = "0" /\ last.flushsame
    /\ Count(OP_CLK_DATA_BYTES_OUT_NEG_IN_POS, last.ops) = 1
    /\ last.nwrites[1] >= 2
    /\ last.nwrites[2] = 1
    /\ last.nwrites[3] = Len(last.ops) + 1

\* C31: when a scan has returned, with 0 or with -1, the observer list is
\* empty and the observer pool is reset, and no flush runs an observer that
\* an earlier call has left behind.
C31_ObserversScopedToScan ==
    /\ last.q.tag \in {"scan", "sh"}
       => mpsse.obs = << >> /\ mpsse.pool_used = 0
    /\ \A k \in 1..Len(mpsse.ran) : ~mpsse.ran[k].stale

C32_Witness ==
    /\ last.q.tag = "sh" /\ last.fault = "short_write"
    /\ mpsse.failed_flushes = 1
    /\ mpsse.obs # << >>
    /\ mpsse.dev.rxq # << >>

C33_SeenTlrRecomputed ==
    /\ (last.q.tag = "sh" /\ last.ret \in {"0", "loop"})
       => (xvc.seen_tlr <=> last.jtag0 \notin {CAPTURE_DR, CAPTURE_IR})
    /\ (last.q.tag \in {"ge", "se"} /\ last.ret = "0")
       => xvc.seen_tlr = last.seen0

\* C34: in a session that started with the tracked TAP state and the
\* engine's stored TAP state both at Test-Logic-Reset, after every getinfo,
\* settck and shift that succeeded (a dropped shift and a shift of several
\* chunks too) the tracked state equals the stored state when xvc_handle
\* goes to read the next command.
C34_TrackedEqualsStored ==
    (last.q.tag \in {"ge", "se", "sh"} /\ last.ret \in {"0", "loop"}
     /\ last.insync)
    => xvc.jtag_state = mpsse.state

\* a shift of more than one chunk has left both states away from
\* Test-Logic-Reset, in a session that started there
C34_Witness ==
    /\ last.q.tag = "sh" /\ last.ret = "loop" /\ last.insync
    /\ ~last.entered
    /\ mpsse.nchunks >= 2
    /\ xvc.jtag_state = mpsse.state
    /\ xvc.jtag_state # last.jtag0
    /\ xvc.jtag_state # TEST_LOGIC_RESET

\* the length byte and the data byte of every 0x6B command of a stream of
\* command bytes, in order
RECURSIVE ExitCmds(_)
ExitCmds(bytes) ==
    IF bytes = << >> \/ Len(bytes) < CmdLen(bytes) THEN << >>
    ELSE (IF bytes[1] = OP_CLK_TMS_READ THEN <<(<<bytes[2], bytes[3]>>)>>
          ELSE << >>)
         \o ExitCmds(SubSeq(bytes, CmdLen(bytes) + 1, Len(bytes)))

\* the runs of the last scan that were handed to append_tdi_shift
ShiftRuns == SelectSeq(mpsse.runs, LAMBDA r : r.kind = "tdi")

\* C35: after a scan that returns 0, every run handed to append_tdi_shift
\* has its final bit L emitted as {0x6B, 0x00, (TDI[L] << 7) | (TMS[L] << 1)
\* | TMS[L]}, the runs in order; TDO[L] holds the bit read back (TDI[L], the
\* device looping back); last_tdi is TDI[L] of the last run, and what it was
\* before the scan when no run was shifted.
C35_FinalBitBy6B ==
    (last.q.tag = "scan" /\ last.ret = "0")
    => /\ Len(ExitCmds(mpsse.emitted)) = Len(ShiftRuns)
       /\ \A k \in 1..Len(ShiftRuns) :
             LET L == ShiftRuns[k].to - 1
             IN  /\ k <= Len(ExitCmds(mpsse.emitted))
                    => ExitCmds(mpsse.emitted)[k]
                       = <<0, 128 * get_bit(last.q.tdi, L)
                              + 3 * get_bit(last.q.tms, L)>>
                 /\ get_bit(last.reply, L) = get_bit(last.q.tdi, L)
       /\ mpsse.last_tdi
          = IF ShiftRuns = << >> THEN last.last_tdi0
            ELSE get_bit(last.q.tdi, ShiftRuns[Len(ShiftRuns)].to - 1)

\* the length byte and the data byte of every 0x4B command of a stream of
\* command bytes, in order
RECURSIVE TmsCmds(_)
TmsCmds(bytes) ==
    IF bytes = << >> \/ Len(bytes) < CmdLen(bytes) THEN << >>
    ELSE (IF bytes[1] = OP_CLK_TMS_NO_READ THEN <<(<<bytes[2], bytes[3]>>)>>
          ELSE << >>)
         \o TmsCmds(SubSeq(bytes, CmdLen(bytes) + 1, Len(bytes)))

\* the pieces of at most six bits of the bits a..b-1, in order: j the first
\* bit of a piece, k its length, tdi the TDI level held
RECURSIVE Pieces(_, _, _)
Pieces(a, b, tdi) ==
    IF a >= b THEN << >>
    ELSE <<[j |-> a, k |-> min(6, b - a), tdi |-> tdi]>>
         \o Pieces(a + min(6, b - a), b, tdi)

\* the pieces of the TMS-only runs among runs[n..], tdi being the TDI of the
\* final bit of the shift run before them
RECURSIVE TmsPieces(_, _, _)
TmsPieces(runs, n, tdi) ==
    IF n > Len(runs) THEN << >>
    ELSE IF runs[n].kind = "tdi"
    THEN TmsPieces(runs, n + 1, get_bit(last.q.tdi, runs[n].to - 1))
    ELSE Pieces(runs[n].from, runs[n].to, tdi) \o TmsPieces(runs, n + 1, tdi)

\* C36: after a scan that returns 0, the 0x4B commands are those of the
\* TMS-only runs in order, ceil((b - a) / 6) commands {0x4B, k - 1, byte} for
\* a run [a, b) with 1 <= k <= 6; bits 0..k-1 of byte are the TMS bits of
\* the piece, bits k..6 are 0 and bit 7 is the TDI of the final bit of the
\* most recent shift run (0 when there was none since the open).
C36_TmsRunsBy4B ==
    (last.q.tag = "scan" /\ last.ret = "0")
    => LET want == TmsPieces(mpsse.runs, 1, last.final_tdi0)
           cmds == TmsCmds(mpsse.emitted)
       IN  /\ Len(cmds) = Len(want)
           /\ \A n \in 1..Len(want) :
                 n <= Len(cmds)
                 => /\ cmds[n][1] = want[n].k - 1
                    /\ \A t \in 0..6 :
                          BitOf(cmds[n][2], t)
                          = IF t < want[n].k
                            THEN get_bit(last.q.tms, want[n].j + t) ELSE 0
                    /\ BitOf(cmds[n][2], 7) = want[n].tdi

(***************************************************************************)
(* Properties of ftdi_adapter_scan_chunked (SpecChunk).                    *)
(***************************************************************************)
\* C30: for every vector and every chunk size of at least one byte,
\* ftdi_adapter_scan_chunked returns the TDO bits and leaves the TAP state
\* that one ftdi_adapter_scan over the whole vector returns and leaves.
C30_ChunkedAsWhole == last.chunk_bytes >= 1 => last.wholesame

(***************************************************************************)
(* Properties of the XVC loop (SpecXvc).                                   *)
(***************************************************************************)
\* C3 as stated: xvc_handle returns 0 only when seen_tlr is true and the
\* tracked TAP state is Run-Test-Idle, whichever command was processed last.
C3_ReturnsOnlyAtRest ==
    last.ret = "0" => (xvc.seen_tlr /\ xvc.jtag_state = RUN_TEST_IDLE)

\* C3 amended: after a shift that succeeds, xvc_handle returns 0 when
\* seen_tlr is true and the tracked TAP state is Run-Test-Idle, and goes
\* round its loop otherwise; after getinfo and after settck it returns 0
\* whatever seen_tlr and the tracked state are.
C3_ShiftReturnsOnlyAtRest ==
    /\ (last.q.tag = "sh" /\ last.ret \in {"0", "loop"})
       => (last.ret = "0" <=> (xvc.seen_tlr /\ xvc.jtag_state = RUN_TEST_IDLE))
    /\ last.q.tag \in {"ge", "se"} => last.ret = "0"

\* a shift has brought the TAP to Run-Test-Idle and xvc_handle has returned 0
C3_Witness ==
    /\ last.q.tag = "sh"
    /\ last.ret = "0"
    /\ last.jtag0 # RUN_TEST_IDLE
    /\ xvc.jtag_state = RUN_TEST_IDLE

\* the events of the last pass are its reads, then its device call, then
\* its write
EventsInOrder(ev) ==
    \A i, j \in 1..Len(ev) :
        i < j => /\ ev[i] # "write"
                 /\ ev[i] = "device" => ev[j] = "write"

\* the length of the reply the last request calls for
ReplyLen ==
    IF last.q.tag = "sh" THEN LastBytes
    ELSE IF last.q.tag = "se" THEN 4
    ELSE Len(XVC_VERSION) + Len(Decimal(xvc.max_vector_size)) + 2

\* C4: when a pass of the loop is over and the next command is going to be
\* read, every byte of the reply has been written, after the device call,
\* and the scan of a shift that went to the device has completed: nothing
\* is left in the TX buffer, no RX byte and no observer is pending, and with
\* a device that has not failed every bit of the request has been clocked
\* and every reply byte of the device has been read.
C4_Serialised ==
    last.ret \in {"0", "loop"}
    => /\ EventsInOrder(last.ev)
       /\ last.ev # << >> /\ last.ev[Len(last.ev)] = "write"
       /\ Len(last.reply) = ReplyLen
       /\ (last.q.tag = "sh" /\ "device" \in {last.ev[k] : k \in 1..Len(last.ev)})
          => /\ mpsse.tx = << >>
             /\ mpsse.rx_num_bytes = 0
             /\ mpsse.obs = << >>
             /\ count.faults = 0
                => /\ mpsse.dev.nclk = LastLen
                   /\ mpsse.dev.partial = << >>
                   /\ mpsse.dev.rxq = << >>

\* the second command of a session is a shift of more than one chunk, and
\* the loop goes on to read a third
C4_Witness ==
    /\ count.requests >= 2
    /\ busy = last.conn
    /\ last.q.tag = "sh"
    /\ LastLen > 8 * ChunkBytes
    /\ last.ret = "loop"

\* C6 as stated: every device write failure, short write or read timeout
\* while serving any command, settck as well as shift, is fatal:
\* xvc_handle returns non-zero and the connection is closed.
C6_EveryFailureFatal ==
    mpsse.ioerr
    => /\ last.ret \in {"1", "-1"}
       /\ last.closed

\* the period settck was asked for
SettckPeriod ==
    IF cfg.frequency = 0 THEN LastLen ELSE 1000000000 \div cfg.frequency

\* C6 amended: a device write failure, short write or read timeout while
\* serving a shift is fatal: xvc_handle returns -1 with no reply and the
\* connection is closed.  A device failure while serving settck is not:
\* the requested period is echoed, xvc_handle returns 0 and the connection
\* stays open.
C6_ShiftFailureFatal ==
    /\ (last.q.tag = "sh" /\ mpsse.ioerr)
       => /\ last.ret = "-1"
          /\ last.reply = << >>
          /\ last.closed
    /\ (last.q.tag = "se" /\ mpsse.ioerr)
       => /\ last.ret = "0"
          /\ last.reply = xvc_put_int32(SettckPeriod)
          /\ ~last.closed

\* the device has failed to return the data of a shift
C6_Witness ==
    /\ last.q.tag = "sh"
    /\ last.fault = "no_data"
    /\ mpsse.ioerr
    /\ last.ret = "-1"

\* a shift request served without failure whose bits are all clocked in one
\* shift run
OneShiftRun ==
    /\ last.q.tag = "sh"
    /\ last.ret \in {"0", "loop"}
    /\ IsShift(last.state0)
    /\ LastLen >= 1
    /\ TmsLowToLastBit

Has39(b) == IF b > 8 THEN 1 ELSE 0

\* 1 when a chunk of b bits has bits between its whole bytes and its last bit
Has3B(b) == IF b >= 1 /\ (b - 1) % 8 # 0 THEN 1 ELSE 0

C8_ReplyIsProgrammedPeriod ==
    (last.q.tag = "se" /\ ~mpsse.ioerr)
    => /\ Len(mpsse.emitted) >= 3
       /\ mpsse.emitted[1] = OP_SET_TCK_DIVISOR
       /\ LET d == mpsse.emitted[2] + 256 * mpsse.emitted[3]
          IN  /\ mpsse.dev.divisor = d
              /\ last.reply = xvc_put_int32(1000000000 \div DevTckHz(d))

\* C9: a request with an unknown tag, or a shift whose ceil(len/8) exceeds
\* max_vector_size, is rejected: xvc_handle returns -1 and the connection
\* is closed, no reply byte is written, no MPSSE command is sent, and the
\* tracked TAP state and seen_tlr are unchanged.
C9_Rejected ==
    (\/ last.q.tag = "xx"
     \/ last.q.tag = "sh" /\ LastBytes > xvc.max_vector_size)
    => /\ last.ret = "-1"
       /\ last.closed
       /\ last.reply = << >>
       /\ mpsse.emitted = << >>
       /\ mpsse.writes = << >>
       /\ xvc.jtag_state = last.jtag0
       /\ xvc.seen_tlr = last.seen0

\* C10: for every value of the length field of a shift, xvc_handle either
\* rejects the request or uses a byte count ceil(len/8) with
\* 1 <= ceil(len/8) <= max_vector_size for the read, the clearing of the
\* TDO buffer and the reply; it never reads or writes outside its buffers.
C10_LengthInBounds ==
    last.q.tag = "sh"
    => /\ last.ret # "crash"
       /\ ~mpsse.ub
       /\ \/ last.ret = "-1" /\ last.reply = << >>
          \/ /\ last.ret \in {"0", "loop"}
             /\ 1 <= LastBytes
             /\ LastBytes <= xvc.max_vector_size
             /\ Len(last.reply) = LastBytes

(***************************************************************************)
(* Properties of the instance and its connections (Spec).                  *)
(***************************************************************************)
\* C5: a connection that on_client_connect has rejected is closed, and no
\* request of a connection is handled by xvc_handle while another
\* connection holds the active XVC session.
C5_SecondRejected ==
    /\ \A c \in Clients : conns[c].verdict = 1 => conns[c].state = "CLOSED"
    /\ (last.conn # 0 /\ last.q.tag # "eof")
       => last.active0 \in {0, last.conn}

\* C19: while the instance is locked to a client IP and the lock has not
\* expired, a connection made from another IP is rejected: it is closed, and
\* nothing it sends is handed to the XVC handler.
C19_LockedOutRejected ==
    /\ \A c \in Clients : conns[c].foreign => conns[c].state = "CLOSED"
    /\ last.conn # 0 => ~last.foreign

\* C20: whenever the connection that holds the active XVC session ends (the
\* handler returns on EOF or on an error, or the socket has an exception)
\* and client_lock_timeout > 0, the instance is then locked to the IP of
\* that client until the time of the disconnect + client_lock_timeout.
C20_LockOnDisconnect ==
    [][\A c \in Clients :
          (/\ cfg.client_lock_timeout > 0
           /\ inst.active_xvc_conn = c
           /\ conns[c].state # "CLOSED"
           /\ conns'[c].state = "CLOSED")
          => /\ inst'.is_locked
             /\ inst'.locked_client_ip = conns[c].ip
             /\ inst'.lock_until = now + cfg.client_lock_timeout]_vars

\* the last request was a shift that meets the condition of the workaround
BogusMovement ==
    /\ last.q.tag = "sh"
    /\ \/ last.jtag0 = EXIT_1_IR /\ LastLen = 5 /\ last.q.tms[1] = 23
       \/ last.jtag0 = EXIT_1_DR /\ LastLen = 4 /\ last.q.tms[1] = 11

\* C12: a shift met in Exit1-IR with len = 5 and TMS[0] = 0x17, or in
\* Exit1-DR with len = 4 and TMS[0] = 0x0b, is dropped: no MPSSE command is
\* sent to the device, the TAP state tracked by the XVC loop and the TAP
\* state stored by the engine are unchanged, and the reply is ceil(len/8)
\* zero bytes.
C12_BogusShiftDropped ==
    BogusMovement
    => /\ last.ret \in {"0", "loop"}
       /\ mpsse.emitted = << >>
       /\ mpsse.writes = << >>
       /\ xvc.jtag_state = last.jtag0
       /\ mpsse.state = last.state0
       /\ last.reply = Zeros(LastBytes)

\* the 4-bit movement 0x0b has been met in Exit1-DR and answered
C12_Witness ==
    /\ BogusMovement
    /\ last.jtag0 = EXIT_1_DR
    /\ last.ret = "loop"
    /\ Len(last.reply) = 1

\* the last shift was served: the reply has been written
ShiftServed == last.q.tag = "sh" /\ last.ret \in {"0", "loop"}

\* from bit i on, with the engine in TAP state state before bit i, every
\* bit of the last reply that was clocked outside Shift-DR/IR is 0
RECURSIVE QuietBitsZero(_, _)
QuietBitsZero(state, i) ==
    IF i >= LastLen THEN TRUE
    ELSE /\ IsShift(state) \/ get_bit(last.reply, i) = 0
         /\ QuietBitsZero(next_state(state, get_bit(last.q.tms, i) = 1), i + 1)

\* C13: in the reply to every shift that is served, every TDO bit at an
\* index >= len in the last byte is 0, and every TDO bit whose clock was
\* issued while the TAP (as the engine tracks it) was not in Shift-DR or
\* Shift-IR is 0.
C13_QuietBitsZero ==
    ShiftServed
    => /\ Len(last.reply) = LastBytes
       /\ \A i \in LastLen..(8 * LastBytes - 1) : get_bit(last.reply, i) = 0
       /\ QuietBitsZero(last.state0, 0)

\* a 16-bit vector that starts outside the shift states, enters Shift-IR
\* and reads TDO there has been served
C13_Witness ==
    /\ ShiftServed
    /\ LastLen = 16
    /\ ~IsShift(last.state0)
    /\ IsShift(mpsse.state)
    /\ last.reply # Zeros(LastBytes)

\* C14: a shift request and the request that differs from it only in the
\* padding bits (the bits at index >= len of the last byte of the TMS and
\* TDI halves), served from the same session state, give the same reply,
\* the same TAP state and seen_tlr, and the same clocks at the device.
C14_PaddingIgnored == last.q.tag = "sh" => last.padsame

\* C15: the device loops TDI back to TDO, so the reply to a served shift
\* equals its TDI over the whole vector, bits clocked outside the shift
\* states included: (len=8, TMS=01, TDI=55) is answered with 55 and
\* (len=16, TMS=00 03, TDI=AA 55) with AA 55.
C15_LoopbackEchoesTdi ==
    (ShiftServed /\ last.fault = "none")
    => \A i \in 0..(LastLen - 1) : get_bit(last.reply, i) = get_bit(last.q.tdi, i)

ScansSucceeded == ShiftServed /\ ~BogusMovement

\* C17: whenever mpsse_adapter_scan has returned success, the TX buffer is
\* empty, no reply byte is expected and the observer list is empty: nothing
\* of one shift is carried over into the next.
C17_FlushedAfterScan ==
    ScansSucceeded
    => /\ mpsse.tx = << >>
       /\ mpsse.rx_num_bytes = 0
       /\ mpsse.obs = << >>

\* a shift whose scans wrote to the device more than once and read TDO
\* through observers has been served, and nothing is left in the buffer
C17_Witness ==
    /\ ScansSucceeded
    /\ Len(mpsse.writes) >= 2
    /\ mpsse.nobs >= 2
    /\ mpsse.nread >= 2
    /\ mpsse.tx = << >>
    /\ mpsse.obs = << >>

(***************************************************************************)
(* Properties of the read loop of the flush (SpecFlush).                   *)
(***************************************************************************)
\* C18: mpsse_buffer_flush terminates whatever the device does, also when
\* it never delivers data and when it reports queued bytes but returns none
\* on a read: it returns success only with exactly rx_num_bytes bytes read,
\* never reads more than that, fails otherwise once the budget is used up,
\* and a flush in its read loop always comes to return.
C18_FlushTerminates ==
    /\ [](rd.pc = "ok" => rd.bytes_read = rd.rx_num_bytes)
    /\ [](rd.bytes_read <= rd.rx_num_bytes)
    /\ [](rd.pc = "fail" => rd.ioerr \/ rd.timeout_us <= 0)
    /\ (rd.pc = "loop" ~> rd.pc \in {"ok", "fail"})

(***************************************************************************)
(* Properties of session initialisation (SpecCfg).                         *)
(***************************************************************************)
\* the configured vector size is outside 1..262144
SizeOutOfRange ==
    cfg.xvc_buffer_size <= 0 \/ cfg.xvc_buffer_size > XVC_MAX_VECTOR_SIZE_LIMIT

\* C11 as stated: a configured max vector size <= 0 or > 262144 bytes is
\* rejected at session init: xvc_init fails, the handler ends the session
\* and no device I/O is performed.
C11_OutOfRangeRejected ==
    (SizeOutOfRange /\ last.conn # 0)
    => /\ last.ret \in {"1", "-1"}
       /\ ~xvc.alloc
       /\ mpsse.writes = << >>

\* C11 amended: xvc_init replaces a configured size <= 0 by the default of
\* 2048 bytes and caps a size above 262144 at 262144; it succeeds with a
\* result buffer of the size in use, and getinfo reports that size.
C11_OutOfRangeClamped ==
    /\ xvc.alloc
       => /\ cfg.xvc_buffer_size <= 0
             => xvc.max_vector_size = XVC_DEFAULT_MAX_VECTOR_SIZE
          /\ cfg.xvc_buffer_size > XVC_MAX_VECTOR_SIZE_LIMIT
             => xvc.max_vector_size = XVC_MAX_VECTOR_SIZE_LIMIT
          /\ ~SizeOutOfRange => xvc.max_vector_size = cfg.xvc_buffer_size
          /\ Len(xvc.result_buf) = xvc.max_vector_size
    /\ (last.q.tag = "ge" /\ last.ret = "0")
       => last.reply = XVC_VERSION \o <<58>> \o Decimal(xvc.max_vector_size)
                       \o <<10>>

\* an instance configured above the limit has served a shift on the device
C11_Witness ==
    /\ cfg.xvc_buffer_size > XVC_MAX_VECTOR_SIZE_LIMIT
    /\ xvc.alloc
    /\ xvc.max_vector_size = XVC_MAX_VECTOR_SIZE_LIMIT
    /\ last.q.tag = "sh"
    /\ last.ret \in {"0", "loop"}
    /\ mpsse.writes # << >>

(***************************************************************************)
(* SpecTap: the two TAP transition functions of the code, next_state of    *)
(* the engine and jtag_step of the XVC loop, are clocked side by side from *)
(* any of the 16 states with any TMS level.  last holds the clock applied  *)
(* last: start the state the run began in, from the states before the      *)
(* clock, tms its TMS level, ones the number of consecutive TMS=1 clocks   *)
(* ending with it, clocks the number of clocks so far.                     *)
(***************************************************************************)
InitTap ==
    /\ \E s \in TapStates :
         /\ mpsse = [mpsse_adapter_open EXCEPT !.state = s]
         /\ xvc = [XvcNone EXCEPT !.jtag_state = s]
         /\ last = [q |-> [tag |-> "tap"], start |-> s, from |-> s,
                    from_xvc |-> s, tms |-> 0, ones |-> 0, clocks |-> 0]
    /\ cfg = [frequency |-> 0, client_lock_timeout |-> 0,
              xvc_buffer_size |-> xvc_buffer_size]
    /\ inst = [active_xvc_conn |-> 0, is_locked |-> FALSE,
               locked_client_ip |-> 0, lock_until |-> 0]
    /\ conns = [c \in Clients |-> NoConn]
    /\ now = 0
    /\ busy = 0
    /\ count = [requests |-> 0, faults |-> 0]
    /\ rd = RdIdle

\* one TCK clock with TMS at tms: the engine steps with next_state, the XVC
\* loop with jtag_step
TapClock(tms) ==
    /\ last.clocks < MaxClocks
    /\ mpsse' = [mpsse EXCEPT !.state = next_state(@, tms # 0)]
    /\ xvc' = [xvc EXCEPT !.jtag_state = jtag_step(@, tms)]
    /\ last' = [last EXCEPT !.from = mpsse.state,
                            !.from_xvc = xvc.jtag_state,
                            !.tms = tms,
                            !.ones = IF tms # 0 THEN @ + 1 ELSE 0,
                            !.clocks = @ + 1]
    /\ UNCHANGED <<cfg, inst, conns, now, busy, count, rd>>

SpecTap == InitTap /\ [][\E tms \in {0, 1} : TapClock(tms)]_vars

(***************************************************************************)
(* Properties of the TAP transition functions (SpecTap).                   *)
(***************************************************************************)
\* C37: clocked from the same state with the same TMS level, next_state and
\* jtag_step return the same state, from each of the 16 states and for both
\* TMS levels; from Update-DR and Update-IR with TMS=0 it is Run-Test-Idle,
\* from Test-Logic-Reset with TMS=1 it is Test-Logic-Reset.
C37_SameTransitions ==
    last.clocks >= 1
    => /\ last.from = last.from_xvc
       /\ mpsse.state = xvc.jtag_state
       /\ (last.from \in {UPDATE_DR, UPDATE_IR} /\ last.tms = 0)
          => mpsse.state = RUN_TEST_IDLE
       /\ (last.from = TEST_LOGIC_RESET /\ last.tms = 1)
          => mpsse.state = TEST_LOGIC_RESET

C37_Witness ==
    /\ last.clocks >= 1
    /\ last.from = UPDATE_IR
    /\ last.from_xvc = UPDATE_IR
    /\ last.tms = 0
    /\ mpsse.state = RUN_TEST_IDLE
    /\ xvc.jtag_state = RUN_TEST_IDLE

\* a clock of the state machine stepping from state from to state to is one
\* the TAP controller may take into and out of the Shift states
ShiftEdges(from, to, tms) ==
    /\ to = SHIFT_DR => (tms = 0 /\ from \in {CAPTURE_DR, SHIFT_DR, EXIT_2_DR})
    /\ to = SHIFT_IR => (tms = 0 /\ from \in {CAPTURE_IR, SHIFT_IR, EXIT_2_IR})
    /\ (from = SHIFT_DR /\ to # SHIFT_DR) => (tms = 1 /\ to = EXIT_1_DR)
    /\ (from = SHIFT_IR /\ to # SHIFT_IR) => (tms = 1 /\ to = EXIT_1_IR)
    /\ (from = SHIFT_DR /\ tms = 1) => to = EXIT_1_DR
    /\ (from = SHIFT_IR /\ tms = 1) => to = EXIT_1_IR

\* C38: from each of the 16 states, after five or more consecutive TMS=1
\* clocks both state machines are in Test-Logic-Reset; Shift-DR (Shift-IR)
\* is entered only by a TMS=0 clock from Capture, Shift or Exit2 of the same
\* register and is left only by a TMS=1 clock, to Exit1 of that register.
C38_ResetAndShiftEdges ==
    last.clocks >= 1
    => /\ last.ones >= 5
          => (mpsse.state = TEST_LOGIC_RESET /\ xvc.jtag_state = TEST_LOGIC_RESET)
       /\ ShiftEdges(last.from, mpsse.state, last.tms)
       /\ ShiftEdges(last.from_xvc, xvc.jtag_state, last.tms)

C38_Witness ==
    /\ last.start = SHIFT_DR
    /\ last.clocks = 5
    /\ last.ones = 5
    /\ last.from = SELECT_IR_SCAN
    /\ mpsse.state = TEST_LOGIC_RESET
    /\ xvc.jtag_state = TEST_LOGIC_RESET

(***************************************************************************)
(* SpecFreq: mpsse_adapter_set_frequency is called on an open engine with  *)
(* requested frequencies from the two ends and the middle of 1 Hz..30 MHz  *)
(* and just outside it.  last.freq is the frequency requested last,        *)
(* last.actual what the call returned and last.divisor0 the divisor the    *)
(* device had before the call.                                             *)
(***************************************************************************)
FreqInputs ==
    {0, 1, 2, 100, 456, 457, 458, 915, 916, 1000, 1000000, 6000000, 7000000,
     10000000, 15000000, 15000001, 29999999, MPSSE_MAX_FREQUENCY,
     MPSSE_MAX_FREQUENCY + 1}

SetFrequency(frequency_hz) ==
    /\ count.requests < MaxRequests
    /\ \E out \in {mpsse_adapter_set_frequency(Fresh(mpsse), frequency_hz)} :
         /\ mpsse' = [out.c EXCEPT !.rc = 0]
         /\ last' = [q |-> [tag |-> "freq"], freq |-> frequency_hz,
                     actual |-> out.ret, divisor0 |-> mpsse.dev.divisor]
    /\ count' = [count EXCEPT !.requests = @ + 1]
    /\ UNCHANGED <<xvc, inst, conns, cfg, now, busy, rd>>

SpecFreq ==
    InitScan /\ [][\E frequency_hz \in FreqInputs : SetFrequency(frequency_hz)]_vars

(***************************************************************************)
(* Properties of mpsse_adapter_set_frequency (SpecFreq).                   *)
(***************************************************************************)
\* C39: for a requested frequency from 1 Hz to 30 MHz, the frequency that
\* mpsse_adapter_set_frequency returns is not above the requested one, and
\* the divisor it has programmed is in 1..65535.
C39_AchievedNotAboveRequested ==
    (/\ last.q.tag = "freq"
     /\ last.freq \in 1..MPSSE_MAX_FREQUENCY
     /\ last.actual >= 0)
    => /\ last.actual <= last.freq
       /\ mpsse.dev.divisor \in 1..65535

(***************************************************************************)
(* SpecBits: get_bit, set_bit, copy_bits and bit_copy are applied to       *)
(* buffers of BufBytes bytes at every bit index and length that stays      *)
(* inside them, one call on each pair of buffers.  last holds the call made last: op its name, dst the       *)
(* destination and src the source before it, i the destination index, j    *)
(* the source index, n the number of bits, v the bit value, out the        *)
(* destination after the call (for get_bit, the value returned).           *)
(***************************************************************************)
BufBits == 8 * BufBytes

\* buffers of all zeros, of all ones and of a mixed pattern
BitBufs ==
    {[k \in 1..BufBytes |-> 0], [k \in 1..BufBytes |-> 255],
     [k \in 1..BufBytes |-> IF k % 2 = 1 THEN 165 ELSE 60]}

BitsCall(op, dst, src, i, j, n, v, out) ==
    [q |-> [tag |-> "bits"], op |-> op, dst |-> dst, src |-> src, i |-> i,
     j |-> j, n |-> n, v |-> v, out |-> out]

InitBits ==
    /\ \E dst \in BitBufs, src \in BitBufs :
         last = BitsCall("none", dst, src, 0, 0, 0, 0, dst)
    /\ cfg = [frequency |-> 0, client_lock_timeout |-> 0,
              xvc_buffer_size |-> xvc_buffer_size]
    /\ mpsse = mpsse_adapter_open
    /\ xvc = XvcNone
    /\ inst = [active_xvc_conn |-> 0, is_locked |-> FALSE,
               locked_client_ip |-> 0, lock_until |-> 0]
    /\ conns = [c \in Clients |-> NoConn]
    /\ now = 0
    /\ busy = 0
    /\ count = [requests |-> 0, faults |-> 0]
    /\ rd = RdIdle

GetBit(idx) ==
    /\ last.op = "none"
    /\ last' = BitsCall("get_bit", last.dst, last.src, 0, idx, 1, 0,
                        get_bit(last.src, idx))
    /\ UNCHANGED <<mpsse, xvc, inst, conns, cfg, now, busy, count, rd>>

SetBit(idx, bit) ==
    /\ last.op = "none"
    /\ last' = BitsCall("set_bit", last.dst, last.src, idx, 0, 1, bit,
                        set_bit(last.dst, idx, bit))
    /\ UNCHANGED <<mpsse, xvc, inst, conns, cfg, now, busy, count, rd>>

\* copy_bits as flush_observer_bit_copy calls it, without the duplicate bit
CopyBits(fromIdx, toIdx, numBits) ==
    /\ last.op = "none"
    /\ fromIdx + numBits <= BufBits
    /\ toIdx + numBits <= BufBits
    /\ last' = BitsCall("copy_bits", last.dst, last.src, toIdx, fromIdx,
                        numBits, 0,
                        copy_bits(last.src, fromIdx, last.dst, toIdx, numBits,
                                  FALSE))
    /\ UNCHANGED <<mpsse, xvc, inst, conns, cfg, now, busy, count, rd>>

BitCopy(dst_offset, src_offset, bit_count) ==
    /\ last.op = "none"
    /\ src_offset + bit_count <= BufBits
    /\ dst_offset + bit_count <= BufBits
    /\ last' = BitsCall("bit_copy", last.dst, last.src, dst_offset, src_offset,
                        bit_count, 0,
                        bit_copy(last.dst, dst_offset, last.src, src_offset,
                                 bit_count))
    /\ UNCHANGED <<mpsse, xvc, inst, conns, cfg, now, busy, count, rd>>

NextBits ==
    \/ \E idx \in 0..(BufBits - 1) : GetBit(idx)
    \/ \E idx \in 0..(BufBits - 1), bit \in {0, 1} : SetBit(idx, bit)
    \/ \E fromIdx \in 0..(BufBits - 1), toIdx \in 0..(BufBits - 1),
          numBits \in 0..BufBits : CopyBits(fromIdx, toIdx, numBits)
    \/ \E dst_offset \in 0..(BufBits - 1), src_offset \in 0..(BufBits - 1),
          bit_count \in 0..BufBits : BitCopy(dst_offset, src_offset, bit_count)

SpecBits == InitBits /\ [][NextBits]_vars

(***************************************************************************)
(* Properties of the bit primitives (SpecBits).                            *)
(***************************************************************************)
\* bit m of a buffer, read by shifting and masking: (buf[m/8] >> (m%8)) & 1
BitAt(buf, m) == (buf[m \div 8 + 1] \div Pow2(m % 8)) % 2

\* C40: get_bit(buf, i) is (buf[i/8] >> (i%8)) & 1; after set_bit(buf, i, v)
\* bit i is v and every other bit is as before; after copy_bits and after
\* bit_copy of n bits, on the byte-aligned path and on the bit-by-bit path,
\* destination bit dst_i+j is source bit src_i+j for every j < n and every
\* other destination bit is as before.
C40_BitPrimitives ==
    /\ last.op = "get_bit" => last.out = BitAt(last.src, last.j)
    /\ last.op = "set_bit"
       => /\ get_bit(last.out, last.i) = last.v
          /\ \A m \in 0..(BufBits - 1) :
                BitAt(last.out, m) = IF m = last.i THEN last.v
                                     ELSE BitAt(last.dst, m)
    /\ last.op \in {"copy_bits", "bit_copy"}
       => /\ Len(last.out) = BufBytes
          /\ \A m \in 0..(BufBits - 1) :
                BitAt(last.out, m)
                = IF m - last.i \in 0..(last.n - 1)
                  THEN BitAt(last.src, last.j + (m - last.i))
                  ELSE BitAt(last.dst, m)

\* a copy of five bits that clears one bit and sets another across a byte
\* boundary of the destination
C40_Witness ==
    /\ last.op \in {"copy_bits", "bit_copy"}
    /\ last.n = 5
    /\ last.i = 6
    /\ last.j = 3
    /\ \E m \in 0..(BufBits - 1) : BitAt(last.out, m) > BitAt(last.dst, m)
    /\ \E m \in 0..(BufBits - 1) : BitAt(last.out, m) < BitAt(last.dst, m)

=============================================================================
